---- MODULE Spec2Model ----
(***************************************************************************)
(* A model of yamlable: the registry of YamlAble classes (the live class   *)
(* hierarchy under YamlAble and each class's own `__yaml_tag_suffix__`),   *)
(* the PyYaml loader/dumper hook tables, and the operations that read and  *)
(* write them: class declaration, @yaml_info, is_yaml_tag_supported,       *)
(* encode_yamlable / decode_yamlable, YamlCodec.encode / decode /          *)
(* register_with_pyyaml, and the dumps_yaml / safe_load entry points.      *)
(*                                                                         *)
(* Python strings are TLA+ strings.  A YAML document is its node: a tag, a *)
(* kind (map / seq / scalar) and the content.  Values inside a mapping or  *)
(* a sequence are resolved by PyYaml and carry their type ("int:1",        *)
(* "str:hello"); the text of a scalar node is unresolved.                  *)
(***************************************************************************)
EXTENDS Integers, Sequences, FiniteSets, TLC

VARIABLES classes, constructors, representers, yo2, last

vars == <<classes, constructors, representers, yo2, last>>

-----------------------------------------------------------------------------
(* Bounds *)

\* how many YamlAble subclasses a run declares
MaxClasses == 2

\* how many YamlAble subclasses a run declares when only the enumeration of
\* the hierarchy is looked at (a class with two parents needs three)
MaxHierarchy == 3

\* how many YamlObject2 subclasses a run declares
MaxYo2Classes == 2

-----------------------------------------------------------------------------
(* Python values *)

\* the value None of a class attribute
PyNone == "<None>"

\* a name that is not in a class's own __dict__
Absent == "<absent>"

YAMLABLE_PREFIX == "!yamlable/"

\* the class YamlAble itself; the classes declared under it are 1, 2, ...
YamlAble == 0

\* str.startswith
StartsWith(s, p) == Len(s) >= Len(p) /\ SubSeq(s, 1, Len(p)) = p

InSeq(x, s) == \E i \in 1..Len(s) : s[i] = x

\* dict[k] = v on a dict held as a set of <<key, value>> pairs
DictPut(d, k, v) == {p \in d : p[1] # k} \cup {<<k, v>>}

DictKeys(d) == {p[1] : p \in d}

DictGet(d, k) == (CHOOSE p \in d : p[1] = k)[2]

-----------------------------------------------------------------------------
(* The class bodies a run declares: the name and the __init__ signature.   *)
(* Foo is `def __init__(self, a, b="hey")`; Bar is `def __init__(self, a)`.*)
(* Each __init__ stores every parameter as an attribute of the same name.  *)
(* `methods` tells which conversion methods the body defines: none         *)
(* ("default"), to_yaml_dict and from_yaml_dict ("legacy"), or             *)
(* __to_yaml_dict__ and __from_yaml_dict__ ("dunder").                     *)

ClassBodies ==
    { [name |-> "Foo", params |-> <<"a", "b">>, nreq |-> 1, methods |-> "default"],
      [name |-> "Bar", params |-> <<"a">>, nreq |-> 1, methods |-> "default"] }

\* the same class written three ways: with no conversion method, with the
\* legacy names, with the dunder names
ConvertingBodies ==
    { [name |-> "Foo", params |-> <<"a", "b">>, nreq |-> 1, methods |-> m] :
        m \in {"default", "legacy", "dunder"} }

\* the default of a parameter that has one (b="hey")
DefaultOf(p) == "str:hey"

\* the suffixes a class body assigns to __yaml_tag_suffix__ (or not at all)
BodySuffixes == {Absent, PyNone, "foo"}

\* the arguments given to @yaml_info
TagArgs == {PyNone, "foo", "!foo"}

NsArgs == {PyNone, "ns"}

\* the tags looked up and the tags of hand-written documents
QueryTags == {"foo", "ns.Foo", "other"}

\* the attribute values of the instances a run builds
AValues == {"int:1"}

BValues == {"str:hello"}

-----------------------------------------------------------------------------
(* Results of an operation *)

NoObj == [cls |-> -1, vars |-> {}]

NoNode == [tag |-> "", kind |-> "", map |-> {}, seq |-> <<>>, text |-> ""]

NoOut ==
    [kind |-> "", exc |-> "", msg |-> "", bool |-> FALSE, obj |-> NoObj,
     node |-> NoNode, tried |-> <<>>, attempts |-> <<>>, errors |-> {}]

Raise(exc, msg) == [NoOut EXCEPT !.kind = "raise", !.exc = exc, !.msg = msg]

RetBool(b) == [NoOut EXCEPT !.kind = "bool", !.bool = b]

RetObj(o) == [NoOut EXCEPT !.kind = "obj", !.obj = o]

RetNode(n) == [NoOut EXCEPT !.kind = "node", !.node = n]

RetNone == [NoOut EXCEPT !.kind = "none"]

\* a plain dict: only its items are kept
RetDict(items) == [NoOut EXCEPT !.kind = "dict", !.obj = [NoObj EXCEPT !.vars = items]]

Raised(out) == out.kind = "raise"

NoCall ==
    [op |-> "", cls |-> -1, tag |-> "", ns |-> "", obj |-> NoObj,
     node |-> NoNode, out |-> NoOut, doc |-> NoOut]

-----------------------------------------------------------------------------
(* The class hierarchy *)

NClasses == Len(classes)

Declared == 1..NClasses

Own(c) == IF c = YamlAble THEN PyNone ELSE classes[c].suffix

Bases(c) == IF c = YamlAble THEN <<>> ELSE classes[c].bases

NameOf(c) == IF c = YamlAble THEN "YamlAble" ELSE classes[c].name

\* the C3 merge of Python's method resolution order; <<-1>> marks failure
RECURSIVE Merge(_)
Merge(lists) ==
    LET ne == SelectSeq(lists, LAMBDA l : l # <<>>)
    IN  IF ne = <<>> THEN <<>>
        ELSE LET good == {i \in 1..Len(ne) :
                             \A j \in 1..Len(ne) : ~InSeq(Head(ne[i]), Tail(ne[j]))}
             IN  IF good = {} THEN <<-1>>
                 ELSE LET i == CHOOSE x \in good : \A y \in good : x <= y
                          h == Head(ne[i])
                      IN  <<h>> \o Merge([k \in 1..Len(ne) |->
                                IF Head(ne[k]) = h THEN Tail(ne[k]) ELSE ne[k]])

\* cls.__mro__, computed when the class is created
Mro(c) == IF c = YamlAble THEN <<YamlAble>> ELSE classes[c].mro

\* the tail of the MRO of a class with the bases bs
MroFromBases(bs) == Merge([i \in 1..Len(bs) |-> Mro(bs[i])] \o <<bs>>)

\* a class registered with YamlAble.register(cls): it has no base under
\* YamlAble and is in the registry of the abstract base class
Virtual(c) == c \in Declared /\ classes[c].bases = <<>>

\* issubclass(c, t): t is in the MRO of c, or t is YamlAble and a class of
\* the MRO was registered with it
IsSubclass(c, t) ==
    \/ InSeq(t, Mro(c))
    \/ t = YamlAble /\ \E i \in 1..Len(Mro(c)) : Virtual(Mro(c)[i])

\* cls.__yaml_tag_suffix__: the first class of the MRO that has the name
RECURSIVE FirstOwn(_)
FirstOwn(mro) ==
    IF mro = <<>> THEN Absent
    ELSE IF Own(Head(mro)) # Absent THEN Own(Head(mro))
    ELSE FirstOwn(Tail(mro))

ResolvedSuffix(c) == FirstOwn(Mro(c))

\* typ.__subclasses__(): the direct subclasses, in the order of declaration
RECURSIVE SubclassesFrom(_, _)
SubclassesFrom(typ, c) ==
    IF c > NClasses THEN <<>>
    ELSE (IF InSeq(typ, Bases(c)) THEN <<c>> ELSE <<>>) \o SubclassesFrom(typ, c + 1)

Subclasses(typ) == SubclassesFrom(typ, 1)

-----------------------------------------------------------------------------
(* YamlAble.is_yaml_tag_supported *)

\* a slip: the inherited suffix is compared, the class's own namespace is not looked at
is_yaml_tag_supported_inherited(cls, yaml_tag) ==
    IF ResolvedSuffix(cls) # Absent /\ ResolvedSuffix(cls) # PyNone
    THEN RetBool(ResolvedSuffix(cls) = yaml_tag)
    ELSE Raise("NotImplementedError",
               "does not seem to have a non-None '__yaml_tag_suffix__' field")

is_yaml_tag_supported(cls, yaml_tag) ==
    IF ResolvedSuffix(cls) # Absent /\ ResolvedSuffix(cls) # PyNone
    THEN IF Own(cls) # Absent
         THEN RetBool(ResolvedSuffix(cls) = yaml_tag)
         ELSE Raise("TypeError", "__yaml_tag_suffix__ field is not redefined by class")
    ELSE Raise("NotImplementedError",
               "does not seem to have a non-None '__yaml_tag_suffix__' field")

-----------------------------------------------------------------------------
(* _get_all_subclasses(typ, recursive=True, _memo): the result list and    *)
(* the memo set, which the recursive calls share and extend.               *)

\* the first loop: the direct subclasses kept in `result`
RECURSIVE DirectSubclasses(_, _, _, _)
DirectSubclasses(typ, sub_list, i, result) ==
    IF i > Len(sub_list) THEN result
    ELSE LET to == sub_list[i]
         IN  DirectSubclasses(typ, sub_list, i + 1,
                 IF to # typ /\ ~InSeq(to, result) /\ IsSubclass(to, typ)
                 THEN Append(result, to) ELSE result)

RECURSIVE GetAllSubclasses(_, _)
RECURSIVE RecurseSubclasses(_, _, _, _, _)
\* the second loop: one recursive call per direct subclass
RecurseSubclasses(typ, sub_list, i, result, memo) ==
    IF i > Len(sub_list) THEN [result |-> result, memo |-> memo]
    ELSE LET r == GetAllSubclasses(sub_list[i], memo)
             kept == SelectSeq(r.result,
                         LAMBDA t : ~InSeq(t, sub_list) /\ IsSubclass(t, typ))
         IN  RecurseSubclasses(typ, sub_list, i + 1, result \o kept, r.memo)

GetAllSubclasses(typ, memo) ==
    IF typ \in memo THEN [result |-> <<>>, memo |-> memo]
    ELSE LET sub_list == Subclasses(typ)
         IN  RecurseSubclasses(typ, sub_list, 1,
                 DirectSubclasses(typ, sub_list, 1, <<>>), memo \cup {typ})

\* _get_all_subclasses(YamlAble)
Candidates == GetAllSubclasses(YamlAble, {}).result

-----------------------------------------------------------------------------
(* The classes declared under YamlObject2 *)

\* the class YamlObject2 itself; the classes declared under it are 301, 302, ...
YamlObject2 == 300

Yo2Declared == {YamlObject2 + i : i \in 1..Len(yo2.classes)}

Yo2Class(c) == yo2.classes[c - YamlObject2]

\* c.__mro__ below AbstractYamlObject, for a class with one base
Yo2Mro(c) == IF c = YamlObject2 THEN <<YamlObject2>> ELSE Yo2Class(c).mro

\* c.yaml_tag, looked up along the MRO (YamlObject2.yaml_tag is None)
RECURSIVE Yo2TagFrom(_)
Yo2TagFrom(mro) ==
    IF mro = <<>> \/ Head(mro) = YamlObject2 THEN PyNone
    ELSE IF Yo2Class(Head(mro)).yaml_tag # Absent THEN Yo2Class(Head(mro)).yaml_tag
    ELSE Yo2TagFrom(Tail(mro))

Yo2Tag(c) == Yo2TagFrom(Yo2Mro(c))

-----------------------------------------------------------------------------
(* Construction: the calls of cls with keyword arguments (a mapping), with  *)
(* positional arguments (a sequence) and with one argument (a scalar).     *)

\* the parameters of cls.__init__ and how many of them have no default
ParamsOf(cls) == IF cls \in Yo2Declared THEN Yo2Class(cls).params ELSE classes[cls].params

NreqOf(cls) == IF cls \in Yo2Declared THEN Yo2Class(cls).nreq ELSE classes[cls].nreq

ParamSet(cls) == {ParamsOf(cls)[i] : i \in 1..Len(ParamsOf(cls))}

Required(cls) == {ParamsOf(cls)[i] : i \in 1..NreqOf(cls)}

\* cls called with the keyword arguments dct
CallKw(cls, dct) ==
    IF Required(cls) \subseteq DictKeys(dct) /\ DictKeys(dct) \subseteq ParamSet(cls)
    THEN RetObj([cls |-> cls,
                 vars |-> {<<p, IF p \in DictKeys(dct) THEN DictGet(dct, p)
                                ELSE DefaultOf(p)>> : p \in ParamSet(cls)}])
    ELSE Raise("TypeError", "__init__() got unexpected or missing arguments")

\* cls called with the positional arguments seq
CallPos(cls, seq) ==
    IF NreqOf(cls) <= Len(seq) /\ Len(seq) <= Len(ParamsOf(cls))
    THEN RetObj([cls |-> cls,
                 vars |-> {<<ParamsOf(cls)[i],
                             IF i <= Len(seq) THEN seq[i]
                             ELSE DefaultOf(ParamsOf(cls)[i])>> :
                           i \in 1..Len(ParamsOf(cls))}])
    ELSE Raise("TypeError", "__init__() got unexpected or missing arguments")

\* which conversion methods dir(cls) shows: those of the class and of its bases
Styles(cls) ==
    IF cls \in Declared
    THEN {classes[Mro(cls)[i]].methods :
             i \in {j \in 1..Len(Mro(cls)) : Mro(cls)[j] # YamlAble}}
    ELSE {}

\* the conversion a class body writes, under either name: every attribute is
\* stored under its name with a leading underscore ...
custom_to_yaml_dict(obj) == {<<"_" \o p[1], p[2]>> : p \in obj.vars}

\* ... and read back from there
custom_from_yaml_dict(cls, dct, yaml_tag) ==
    IF \A p \in dct : StartsWith(p[1], "_")
    THEN CallKw(cls, {<<SubSeq(p[1], 2, Len(p[1])), p[2]>> : p \in dct})
    ELSE Raise("KeyError", "the mapping lacks a key")

\* AbstractYamlObject.__from_yaml_dict__: the legacy method when dir(cls) has
\* one, cls(**dct) otherwise
from_yaml_dict_default(cls, dct, yaml_tag) ==
    IF "legacy" \in Styles(cls) THEN custom_from_yaml_dict(cls, dct, yaml_tag)
    ELSE CallKw(cls, dct)

\* cls.__from_yaml_dict__(dct, yaml_tag): the override of the class when it
\* has one
from_yaml_dict(cls, dct, yaml_tag) ==
    IF "dunder" \in Styles(cls) THEN custom_from_yaml_dict(cls, dct, yaml_tag)
    ELSE from_yaml_dict_default(cls, dct, yaml_tag)

\* AbstractYamlObject.__from_yaml_list__ (default)
from_yaml_list_default(cls, seq, yaml_tag) == CallPos(cls, seq)

\* AbstractYamlObject.__from_yaml_scalar__ (default)
from_yaml_scalar_default(cls, scalar, yaml_tag) == CallPos(cls, <<scalar>>)

\* a slip: the scalar goes through the implicit resolver and comes out an int
read_yaml_node_as_scalar_resolved(node) == "int:" \o node.text

\* loader.construct_scalar(node): the text of the node, never resolved
read_yaml_node_as_scalar(node) == "str:" \o node.text

\* loader.construct_sequence(node, deep=True)
read_yaml_node_as_sequence(node) == node.seq

\* loader.construct_mapping(node, deep=True)
read_yaml_node_as_dict(node) == node.map

read_yaml_node_as_yamlobject(cls, node, yaml_tag) ==
    IF node.kind = "scalar"
    THEN from_yaml_scalar_default(cls, read_yaml_node_as_scalar(node), yaml_tag)
    ELSE IF node.kind = "seq"
    THEN from_yaml_list_default(cls, read_yaml_node_as_sequence(node), yaml_tag)
    ELSE IF node.kind = "map"
    THEN from_yaml_dict(cls, read_yaml_node_as_dict(node), yaml_tag)
    ELSE Raise("TypeError", "Unknown type of yaml node")

\* a slip: the legacy name is not looked for
to_yaml_dict_default_no_legacy(obj) == obj.vars

\* AbstractYamlObject.__to_yaml_dict__: the legacy method when dir(self) has
\* one, vars(self) otherwise
to_yaml_dict_default(obj) ==
    IF "legacy" \in Styles(obj.cls) THEN custom_to_yaml_dict(obj) ELSE obj.vars

\* obj.__to_yaml_dict__(): the override of the class when it has one
to_yaml_dict(obj) ==
    IF "dunder" \in Styles(obj.cls) THEN custom_to_yaml_dict(obj)
    ELSE to_yaml_dict_default(obj)

\* dumper.represent_mapping(tag, mapping)
represent_mapping(tag, mapping) ==
    [tag |-> tag, kind |-> "map", map |-> mapping, seq |-> <<>>, text |-> ""]

-----------------------------------------------------------------------------
(* decode_yamlable and encode_yamlable *)

\* str(e) as it is stored in the errors dict
ErrText(out) == out.exc \o ": " \o out.msg

NotSupportedText == "yaml tag is not supported."

Attempt(cls, check, exc, built) ==
    [cls |-> cls, check |-> check, exc |-> exc, built |-> built]

\* a slip: an exception of a candidate's check is not caught and ends the search
RECURSIVE DecodeLoop_abort(_, _, _, _, _, _)
DecodeLoop_abort(candidates, i, yaml_tag, node, attempts, errors) ==
    IF i > Len(candidates)
    THEN [Raise("TypeError", "No YamlAble subclass found able to decode object")
             EXCEPT !.tried = candidates, !.attempts = attempts, !.errors = errors]
    ELSE LET clazz == candidates[i]
             chk == is_yaml_tag_supported(clazz, yaml_tag)
             res == read_yaml_node_as_yamlobject(clazz, node, yaml_tag)
         IN  IF Raised(chk)
             THEN [chk EXCEPT !.tried = candidates,
                              !.attempts = Append(attempts, Attempt(clazz, "raise", chk.exc, FALSE)),
                              !.errors = errors]
             ELSE IF ~chk.bool
             THEN DecodeLoop_abort(candidates, i + 1, yaml_tag, node,
                      Append(attempts, Attempt(clazz, "false", "", FALSE)),
                      DictPut(errors, NameOf(clazz), NotSupportedText))
             ELSE IF Raised(res)
             THEN DecodeLoop_abort(candidates, i + 1, yaml_tag, node,
                      Append(attempts, Attempt(clazz, "true", res.exc, FALSE)),
                      DictPut(errors, NameOf(clazz), ErrText(res)))
             ELSE [RetObj(res.obj)
                      EXCEPT !.tried = candidates,
                             !.attempts = Append(attempts, Attempt(clazz, "true", "", TRUE)),
                             !.errors = errors]

\* a slip: the try block covers the check only, so the construction error of
\* a candidate that accepts the tag ends the search
RECURSIVE DecodeLoop_propagate(_, _, _, _, _, _)
DecodeLoop_propagate(candidates, i, yaml_tag, node, attempts, errors) ==
    IF i > Len(candidates)
    THEN [Raise("TypeError", "No YamlAble subclass found able to decode object")
             EXCEPT !.tried = candidates, !.attempts = attempts, !.errors = errors]
    ELSE LET clazz == candidates[i]
             chk == is_yaml_tag_supported(clazz, yaml_tag)
             res == read_yaml_node_as_yamlobject(clazz, node, yaml_tag)
         IN  IF Raised(chk)
             THEN DecodeLoop_propagate(candidates, i + 1, yaml_tag, node,
                      Append(attempts, Attempt(clazz, "raise", chk.exc, FALSE)),
                      DictPut(errors, NameOf(clazz), ErrText(chk)))
             ELSE IF ~chk.bool
             THEN DecodeLoop_propagate(candidates, i + 1, yaml_tag, node,
                      Append(attempts, Attempt(clazz, "false", "", FALSE)),
                      DictPut(errors, NameOf(clazz), NotSupportedText))
             ELSE [res EXCEPT !.tried = candidates,
                              !.attempts = Append(attempts,
                                  Attempt(clazz, "true", res.exc, ~Raised(res))),
                              !.errors = errors]

\* the loop of decode_yamlable from candidate i on; `attempts` records what
\* the loop did with each candidate, `errors` is the dict of the code
RECURSIVE DecodeLoop(_, _, _, _, _, _)
DecodeLoop(candidates, i, yaml_tag, node, attempts, errors) ==
    IF i > Len(candidates)
    THEN [Raise("TypeError", "No YamlAble subclass found able to decode object")
             EXCEPT !.tried = candidates, !.attempts = attempts, !.errors = errors]
    ELSE LET clazz == candidates[i]
             chk == is_yaml_tag_supported(clazz, yaml_tag)
             res == read_yaml_node_as_yamlobject(clazz, node, yaml_tag)
         IN  IF Raised(chk)
             THEN DecodeLoop(candidates, i + 1, yaml_tag, node,
                      Append(attempts, Attempt(clazz, "raise", chk.exc, FALSE)),
                      DictPut(errors, NameOf(clazz), ErrText(chk)))
             ELSE IF ~chk.bool
             THEN DecodeLoop(candidates, i + 1, yaml_tag, node,
                      Append(attempts, Attempt(clazz, "false", "", FALSE)),
                      DictPut(errors, NameOf(clazz), NotSupportedText))
             ELSE IF Raised(res)
             THEN DecodeLoop(candidates, i + 1, yaml_tag, node,
                      Append(attempts, Attempt(clazz, "true", res.exc, FALSE)),
                      DictPut(errors, NameOf(clazz), ErrText(res)))
             ELSE [RetObj(res.obj)
                      EXCEPT !.tried = candidates,
                             !.attempts = Append(attempts, Attempt(clazz, "true", "", TRUE)),
                             !.errors = errors]

decode_yamlable(yaml_tag, node) == DecodeLoop(Candidates, 1, yaml_tag, node, <<>>, {})

\* a slip: the tag written is the suffix alone, without the prefix
encode_yamlable_suffix_only(obj, without_custom_tag) ==
    LET new_data == to_yaml_dict_default(obj)
    IN  IF ResolvedSuffix(obj.cls) = Absent \/ ResolvedSuffix(obj.cls) = PyNone
        THEN Raise("NotImplementedError",
                   "does not seem to have a non-None '__yaml_tag_suffix__' field")
        ELSE RetNode(represent_mapping(ResolvedSuffix(obj.cls), new_data))

\* a slip: the suffix is not checked against None before it is written
encode_yamlable_no_check(obj, without_custom_tag) ==
    RetNode(represent_mapping(YAMLABLE_PREFIX \o ResolvedSuffix(obj.cls),
                              to_yaml_dict_default(obj)))

encode_yamlable(obj, without_custom_tag) ==
    LET new_data == to_yaml_dict(obj)
    IN  IF without_custom_tag THEN RetNode(represent_mapping(PyNone, new_data))
        ELSE IF ResolvedSuffix(obj.cls) = Absent \/ ResolvedSuffix(obj.cls) = PyNone
        THEN Raise("NotImplementedError",
                   "does not seem to have a non-None '__yaml_tag_suffix__' field")
        ELSE RetNode(represent_mapping(YAMLABLE_PREFIX \o ResolvedSuffix(obj.cls), new_data))

-----------------------------------------------------------------------------
(* @yaml_info / yaml_info_decorate *)

\* the plain classes of the codec tests: Foo(a, b) and Bar(c)
PlainFoo == 101

PlainBar == 102

PlainTypes == {PlainFoo, PlainBar}

\* a class declared under YamlObject2
Yo2Foo == 201

ClassNameOf(cls) ==
    IF cls = PlainFoo \/ cls = Yo2Foo THEN "Foo"
    ELSE IF cls = PlainBar THEN "Bar"
    ELSE IF cls \in Yo2Declared THEN Yo2Class(cls).name
    ELSE NameOf(cls)

\* issubclass(cls, YamlObject2)
IsYamlObject2Subclass(cls) == cls = Yo2Foo

\* issubclass(cls, YamlAble)
IsYamlAbleSubclass(cls) == cls \in 0..NClasses

\* a slip: the namespace and the class name are joined without the "."
yaml_info_decorate_no_dot(cls, yaml_tag, yaml_tag_ns) ==
    LET tag == IF yaml_tag_ns # PyNone THEN yaml_tag_ns \o ClassNameOf(cls) ELSE yaml_tag
        fail(exc, msg) == [out |-> Raise(exc, msg), set |-> FALSE, suffix |-> ""]
    IN  IF (yaml_tag_ns # PyNone) = (yaml_tag # PyNone)
        THEN fail("ValueError", "One and only one of 'yaml_tag' and 'yaml_tag_ns'")
        ELSE IF ~IsYamlAbleSubclass(cls) THEN fail("TypeError", "This is not supported")
        ELSE IF StartsWith(tag, "!")
        THEN fail("ValueError", "the yaml_tag field should NOT start with !")
        ELSE [out |-> RetNone, set |-> TRUE, suffix |-> tag]

\* a slip: the class is not looked at, the suffix is written on any class
yaml_info_decorate_any_class(cls, yaml_tag, yaml_tag_ns) ==
    LET tag == IF yaml_tag_ns # PyNone
               THEN yaml_tag_ns \o "." \o ClassNameOf(cls) ELSE yaml_tag
        fail(exc, msg) == [out |-> Raise(exc, msg), set |-> FALSE, suffix |-> ""]
    IN  IF yaml_tag_ns # PyNone /\ yaml_tag # PyNone
        THEN fail("ValueError", "Only one of 'yaml_tag' and 'yaml_tag_ns' should be provided")
        ELSE IF yaml_tag_ns = PyNone /\ yaml_tag = PyNone
        THEN fail("ValueError", "One non-None yaml_tag or yaml_tag_ns must be provided.")
        ELSE IF StartsWith(tag, "!")
        THEN fail("ValueError", "the yaml_tag field should NOT start with !")
        ELSE [out |-> RetNone, set |-> TRUE, suffix |-> tag]

\* a slip: with both arguments given the namespace silently wins
yaml_info_decorate_ns_wins(cls, yaml_tag, yaml_tag_ns) ==
    LET tag == IF yaml_tag_ns # PyNone
               THEN yaml_tag_ns \o "." \o ClassNameOf(cls) ELSE yaml_tag
        fail(exc, msg) == [out |-> Raise(exc, msg), set |-> FALSE, suffix |-> ""]
    IN  IF yaml_tag_ns = PyNone /\ yaml_tag = PyNone
        THEN fail("ValueError", "One non-None yaml_tag or yaml_tag_ns must be provided.")
        ELSE IF IsYamlObject2Subclass(cls)
        THEN fail("TypeError", "This is not supported")
        ELSE IF IsYamlAbleSubclass(cls)
        THEN IF StartsWith(tag, "!")
             THEN fail("ValueError", "the yaml_tag field should NOT start with !")
             ELSE [out |-> RetNone, set |-> TRUE, suffix |-> tag]
        ELSE fail("TypeError",
                  "classes tagged with @yaml_info should be subclasses of YamlAble or YamlObject2")

\* a slip: a class that already has its own suffix keeps it
yaml_info_decorate_keep_first(cls, yaml_tag, yaml_tag_ns) ==
    LET r == yaml_info_decorate_ns_wins(cls, yaml_tag, yaml_tag_ns)
    IN  IF r.set /\ cls \in Declared /\ Own(cls) \notin {Absent, PyNone}
        THEN [r EXCEPT !.suffix = Own(cls)]
        ELSE r

\* the outcome, and the suffix written into the class's own namespace
\* (`set` tells whether one was written)
yaml_info_decorate(cls, yaml_tag, yaml_tag_ns) ==
    LET tag == IF yaml_tag_ns # PyNone
               THEN yaml_tag_ns \o "." \o ClassNameOf(cls) ELSE yaml_tag
        fail(exc, msg) == [out |-> Raise(exc, msg), set |-> FALSE, suffix |-> ""]
    IN  IF yaml_tag_ns # PyNone /\ yaml_tag # PyNone
        THEN fail("ValueError", "Only one of 'yaml_tag' and 'yaml_tag_ns' should be provided")
        ELSE IF yaml_tag_ns = PyNone /\ yaml_tag = PyNone
        THEN fail("ValueError", "One non-None yaml_tag or yaml_tag_ns must be provided.")
        ELSE IF IsYamlObject2Subclass(cls)
        THEN fail("TypeError", "This is not supported")
        ELSE IF IsYamlAbleSubclass(cls)
        THEN IF StartsWith(tag, "!")
             THEN fail("ValueError", "the yaml_tag field should NOT start with !")
             ELSE [out |-> RetNone, set |-> TRUE, suffix |-> tag]
        ELSE fail("TypeError",
                  "classes tagged with @yaml_info should be subclasses of YamlAble or YamlObject2")

-----------------------------------------------------------------------------
(* Codecs: the YamlCodec subclasses of the codec tests.  MyCodec handles   *)
(* Foo and Bar under "!mycodec/" from mappings only; MyCodec2 extends it   *)
(* with from_yaml_list and from_yaml_scalar.                               *)

Codecs == {"MyCodec", "MyCodec2"}

\* a codec like MyCodec whose get_yaml_prefix returns a prefix without the
\* trailing "/", as the 'mycodec' of the YamlCodec docstring
BareCodecs == {"BareCodec"}

\* codecs like MyCodec whose to_yaml_dict breaks its contract: the first
\* returns an int as the suffix, the second a list as the representation
MalformedCodecs == {"IntSuffixCodec", "ListReprCodec"}

AllCodecs == Codecs \cup BareCodecs \cup MalformedCodecs

get_yaml_prefix(codec) == IF codec \in BareCodecs THEN "!bare" ELSE "!mycodec/"

get_known_types(codec) == <<PlainFoo, PlainBar>>

\* types_to_yaml_tags
TypeToYamlTag(typ) == IF typ = PlainFoo THEN "yaml.tests.Foo" ELSE "yaml.tests.Bar"

\* yaml_tags_to_types
YamlTagToType(suffix) == IF suffix = "yaml.tests.Foo" THEN PlainFoo ELSE PlainBar

codec_is_yaml_tag_supported(codec, yaml_tag_suffix) ==
    yaml_tag_suffix \in {"yaml.tests.Foo", "yaml.tests.Bar"}

PlainParams(typ) == IF typ = PlainFoo THEN <<"a", "b">> ELSE <<"c">>

PlainParamSet(typ) == {PlainParams(typ)[i] : i \in 1..Len(PlainParams(typ))}

\* typ called with the keyword arguments dct
PlainCallKw(typ, dct) ==
    IF DictKeys(dct) = PlainParamSet(typ)
    THEN RetObj([cls |-> typ, vars |-> dct])
    ELSE Raise("TypeError", "__init__() got unexpected or missing arguments")

\* typ called with the positional arguments seq
PlainCallPos(typ, seq) ==
    IF Len(seq) = Len(PlainParams(typ))
    THEN RetObj([cls |-> typ,
                 vars |-> {<<PlainParams(typ)[i], seq[i]>> : i \in 1..Len(seq)}])
    ELSE Raise("TypeError", "__init__() got unexpected or missing arguments")

codec_from_yaml_dict(codec, yaml_tag_suffix, dct) ==
    PlainCallKw(YamlTagToType(yaml_tag_suffix), dct)

\* a slip: the default for sequences carries the message of the scalar default
codec_from_yaml_list_scalar_msg(codec, yaml_tag_suffix, seq) ==
    IF codec = "MyCodec2" THEN PlainCallPos(YamlTagToType(yaml_tag_suffix), seq)
    ELSE Raise("NotImplementedError",
               "This codec does not support loading objects from scalar.")

\* YamlCodec.from_yaml_list, overridden by MyCodec2
codec_from_yaml_list(codec, yaml_tag_suffix, seq) ==
    IF codec = "MyCodec2" THEN PlainCallPos(YamlTagToType(yaml_tag_suffix), seq)
    ELSE Raise("NotImplementedError",
               "This codec does not support loading objects from sequence.")

\* YamlCodec.from_yaml_scalar, overridden by MyCodec2
codec_from_yaml_scalar(codec, yaml_tag_suffix, scalar) ==
    IF codec = "MyCodec2" THEN PlainCallPos(YamlTagToType(yaml_tag_suffix), <<scalar>>)
    ELSE Raise("NotImplementedError",
               "This codec does not support loading objects from scalar.")

\* the (suffix, mapping) pair of to_yaml_dict
codec_to_yaml_dict(codec, obj) ==
    [suffix |-> IF codec = "IntSuffixCodec" THEN "int:1" ELSE TypeToYamlTag(obj.cls),
     dct |-> obj.vars,
     suffix_is_str |-> codec # "IntSuffixCodec",
     dct_is_mapping |-> codec # "ListReprCodec"]

\* YamlCodec.decode; `built` tells whether a from_yaml_* method was called
codec_decode(codec, yaml_tag_suffix, node) ==
    IF codec_is_yaml_tag_supported(codec, yaml_tag_suffix)
    THEN LET r == IF node.kind = "scalar"
                  THEN codec_from_yaml_scalar(codec, yaml_tag_suffix,
                                              read_yaml_node_as_scalar(node))
                  ELSE IF node.kind = "seq"
                  THEN codec_from_yaml_list(codec, yaml_tag_suffix,
                                            read_yaml_node_as_sequence(node))
                  ELSE IF node.kind = "map"
                  THEN codec_from_yaml_dict(codec, yaml_tag_suffix,
                                            read_yaml_node_as_dict(node))
                  ELSE Raise("TypeError", "Unknown type of yaml node")
         IN  [r EXCEPT !.attempts = <<Attempt(-1, "true", r.exc, TRUE)>>]
    ELSE [RetNone EXCEPT !.attempts = <<Attempt(-1, "false", "", FALSE)>>]

\* a slip in the normalisation of the prefix: the "/" is always appended
codec_encode_always_slash(codec, obj, without_custom_tag) ==
    LET pair == codec_to_yaml_dict(codec, obj)
    IN  RetNode(represent_mapping(get_yaml_prefix(codec) \o "/" \o pair.suffix, pair.dct))

\* a slip: the pair that to_yaml_dict returns is not checked
codec_encode_no_type_check(codec, obj, without_custom_tag) ==
    LET pair == codec_to_yaml_dict(codec, obj)
        prefix == get_yaml_prefix(codec)
        prefix2 == IF Len(prefix) = 0 \/ SubSeq(prefix, Len(prefix), Len(prefix)) # "/"
                   THEN prefix \o "/" ELSE prefix
    IN  IF without_custom_tag THEN RetNode(represent_mapping(PyNone, pair.dct))
        ELSE RetNode(represent_mapping(prefix2 \o pair.suffix, pair.dct))

\* YamlCodec.encode
codec_encode(codec, obj, without_custom_tag) ==
    LET pair == codec_to_yaml_dict(codec, obj)
        prefix == get_yaml_prefix(codec)
        prefix2 == IF Len(prefix) = 0 \/ SubSeq(prefix, Len(prefix), Len(prefix)) # "/"
                   THEN prefix \o "/" ELSE prefix
    IN  IF ~pair.dct_is_mapping \/ ~pair.suffix_is_str
        THEN Raise("TypeError", "to_yaml_dict did not return correct results.")
        ELSE IF without_custom_tag THEN RetNode(represent_mapping(PyNone, pair.dct))
        ELSE RetNode(represent_mapping(prefix2 \o pair.suffix, pair.dct))

-----------------------------------------------------------------------------
(* PyYaml: the multi-constructor table of each loader (an insertion-ordered*)
(* dict from tag prefix to handler) and the multi-representer table of     *)
(* each dumper (a dict from type to handler).                              *)

Loaders == {"Loader", "SafeLoader", "FullLoader"}

Dumpers == {"Dumper", "SafeDumper"}

\* loader.add_multi_constructor(prefix, handler)
\* a slip: a prefix that is already bound keeps its first handler
add_multi_constructor_keep_first(table, prefix, handler) ==
    IF \E i \in 1..Len(table) : table[i][1] = prefix
    THEN table
    ELSE Append(table, <<prefix, handler>>)

\* loader.add_multi_constructor(prefix, handler)
add_multi_constructor(table, prefix, handler) ==
    IF \E i \in 1..Len(table) : table[i][1] = prefix
    THEN [i \in 1..Len(table) |->
             IF table[i][1] = prefix THEN <<prefix, handler>> ELSE table[i]]
    ELSE Append(table, <<prefix, handler>>)

\* dumper.add_multi_representer(typ, handler)
\* a slip: the table of the dumper is replaced, not updated
add_multi_representer_clear(table, typ, handler) == {<<typ, handler>>}

\* dumper.add_multi_representer(typ, handler)
add_multi_representer(table, typ, handler) == DictPut(table, typ, handler)

\* type(obj).__mro__
TypeMro(cls) ==
    IF cls \in 0..NClasses THEN Mro(cls)
    ELSE IF cls \in Yo2Declared THEN Yo2Mro(cls)
    ELSE <<cls>>

\* the handler of the first class of the MRO that has one, "" when none has
RECURSIVE FindRepresenter(_, _)
FindRepresenter(table, mro) ==
    IF mro = <<>> THEN ""
    ELSE IF Head(mro) \in DictKeys(table) THEN DictGet(table, Head(mro))
    ELSE FindRepresenter(table, Tail(mro))

\* the tag Dumper gives an object of a class that has no representer
PythonObjectTag == "tag:yaml.org,2002:python/object:"

\* a slip: the document is written under the name of the class, not its tag
yo2_to_yaml_class_name(cls, data) ==
    RetNode(represent_mapping("!" \o ClassNameOf(cls), to_yaml_dict_default(data)))

\* YamlObject2.to_yaml, bound to the class it was registered for
yo2_to_yaml(cls, data) ==
    RetNode(represent_mapping(Yo2Tag(cls), to_yaml_dict(data)))

\* YamlObject2.from_yaml, bound to the class it was registered for
yo2_from_yaml(cls, node) == read_yaml_node_as_yamlobject(cls, node, Yo2Tag(cls))

\* yaml.dump / yaml.safe_dump of one object: the representer of the exact
\* type first, then the multi-representers along the MRO
represent_data(dumper, obj) ==
    LET handler == FindRepresenter(representers[dumper], TypeMro(obj.cls))
    IN  IF obj.cls \in DictKeys(yo2.yaml_representers[dumper])
        THEN yo2_to_yaml(obj.cls, obj)
        ELSE IF handler = "encode_yamlable" THEN encode_yamlable(obj, FALSE)
        ELSE IF handler \in AllCodecs THEN codec_encode(handler, obj, FALSE)
        ELSE IF dumper = "SafeDumper"
        THEN Raise("RepresenterError", "cannot represent an object")
        ELSE RetNode(represent_mapping(PythonObjectTag \o ClassNameOf(obj.cls), obj.vars))

\* the index of the first prefix of the table that the tag starts with, 0 when none
RECURSIVE FindConstructor(_, _, _)
FindConstructor(table, i, tag) ==
    IF i > Len(table) THEN 0
    ELSE IF StartsWith(tag, table[i][1]) THEN i
    ELSE FindConstructor(table, i + 1, tag)

\* the tags the resolver gives an untagged mapping and an empty document
MapTag == "tag:yaml.org,2002:map"

NullTag == "tag:yaml.org,2002:null"

\* yaml.load / yaml.safe_load of one document: the constructor of the exact
\* tag first, then the multi-constructors by prefix
construct_object(loader, node) ==
    LET table == constructors[loader]
        i == FindConstructor(table, 1, node.tag)
        suffix == SubSeq(node.tag, Len(table[i][1]) + 1, Len(node.tag))
    IN  IF node.tag = MapTag THEN RetDict(node.map)
        ELSE IF node.tag = NullTag THEN RetNone
        ELSE IF node.tag \in DictKeys(yo2.yaml_constructors[loader])
        THEN yo2_from_yaml(DictGet(yo2.yaml_constructors[loader], node.tag), node)
        ELSE IF i = 0
        THEN IF loader = "Loader" /\ StartsWith(node.tag, PythonObjectTag)
             THEN PlainCallKw(IF node.tag = PythonObjectTag \o "Foo" THEN PlainFoo
                              ELSE PlainBar, node.map)
             ELSE Raise("ConstructorError", "could not determine a constructor for the tag")
        ELSE IF table[i][2] = "decode_yamlable" THEN decode_yamlable(suffix, node)
        ELSE codec_decode(table[i][2], suffix, node)

\* obj.dumps_yaml(safe) / yaml.safe_dump(obj) / yaml.dump(obj)
dumps_yaml(obj, safe) == represent_data(IF safe THEN "SafeDumper" ELSE "Dumper", obj)

\* yaml.safe_load(doc)
safe_load(node) == construct_object("SafeLoader", node)

\* the loader of yaml.load(doc) when none is given: Loader before PyYaml 5.1,
\* FullLoader from then on
DefaultLoaders == {"Loader", "FullLoader"}

\* isinstance(res, cls)
IsInstance(res, cls) == res.kind = "obj" /\ InSeq(cls, TypeMro(res.obj.cls))

NotAnInstanceText == "Decoded object is not an instance of the class"

\* a slip: the decoded value is returned whatever its type
load_yaml_unchecked(cls, node, loader) == construct_object(loader, node)

\* cls.loads_yaml(doc, safe) / cls.load_yaml(stream, safe); loader is SafeLoader
\* when safe, the default loader of yaml.load otherwise
load_yaml(cls, node, loader) ==
    LET res == construct_object(loader, node)
    IN  IF Raised(res) THEN res
        ELSE IF IsInstance(res, cls) THEN res
        ELSE Raise("TypeError", NotAnInstanceText)

-----------------------------------------------------------------------------
(* Inputs *)

ValuesOf(p) == IF p = "a" THEN AValues ELSE BValues

\* the instances cls(...) of a declared class
InstancesOf(cls) ==
    {[cls |-> cls, vars |-> {<<p, f[p]>> : p \in ParamSet(cls)}] :
        f \in {g \in [ParamSet(cls) -> AValues \cup BValues] :
                  \A p \in ParamSet(cls) : g[p] \in ValuesOf(p)}}

\* the contents of hand-written documents
NodeShapes ==
    { [NoNode EXCEPT !.kind = "map", !.map = {<<"a", "int:1">>}],
      [NoNode EXCEPT !.kind = "map", !.map = {<<"a", "int:1">>, <<"b", "str:hello">>}],
      [NoNode EXCEPT !.kind = "seq", !.seq = <<"int:1">>],
      [NoNode EXCEPT !.kind = "scalar", !.text = "1"] }

\* the instances of the plain classes that the codecs handle
PlainInstances ==
    { [cls |-> PlainFoo, vars |-> {<<"a", "int:1">>, <<"b", "str:hello">>}],
      [cls |-> PlainBar, vars |-> {<<"c", "str:what?">>}] }

CodecSuffixes == {"yaml.tests.Foo", "yaml.tests.Bar", "yaml.tests.Baz"}

CodecNodeShapes ==
    { [NoNode EXCEPT !.kind = "map", !.map = {<<"a", "int:1">>, <<"b", "str:hello">>}],
      [NoNode EXCEPT !.kind = "map", !.map = {<<"c", "str:what?">>}],
      [NoNode EXCEPT !.kind = "seq", !.seq = <<"str:what?">>],
      [NoNode EXCEPT !.kind = "scalar", !.text = "what?"] }

CodecDocs ==
    {[n EXCEPT !.tag = "!mycodec/" \o t] : n \in CodecNodeShapes, t \in CodecSuffixes}

YamlAbleDocs ==
    {[n EXCEPT !.tag = YAMLABLE_PREFIX \o t] : n \in NodeShapes, t \in QueryTags}

\* documents without a tag: a mapping, and the empty document
UntaggedDocs ==
    { [NoNode EXCEPT !.tag = MapTag, !.kind = "map", !.map = {<<"a", "int:1">>}],
      [NoNode EXCEPT !.tag = NullTag, !.kind = "scalar"] }

-----------------------------------------------------------------------------
(* Actions *)

Init ==
    /\ classes = <<>>
    /\ constructors = [l \in Loaders |-> << <<YAMLABLE_PREFIX, "decode_yamlable">> >>]
    /\ representers = [d \in Dumpers |-> {<<YamlAble, "encode_yamlable">>}]
    /\ yo2 = [classes |-> <<>>,
              yaml_constructors |-> [l \in Loaders |-> {}],
              yaml_representers |-> [d \in Dumpers |-> {}]]
    /\ last = NoCall

\* the caller is between two calls
Idle == last.op = ""

\* the caller has looked at the outcome of its last call and goes on
Continue ==
    /\ ~Idle
    /\ last' = NoCall
    /\ UNCHANGED <<classes, constructors, representers, yo2>>

\* the bases a new class may name: one class, or two distinct ones
BaseLists ==
    LET known == 0..NClasses
    IN  {<<p>> : p \in known} \cup
        {<<p, q>> : <<p, q>> \in {pq \in known \X known : pq[1] # pq[2]}}

\* class <name>(<bases>): [__yaml_tag_suffix__ = <suffix>]; def __init__ ...
DeclareClassUpTo(max, body, bases, suffix) ==
    /\ Idle
    /\ NClasses < max
    /\ ~InSeq(-1, MroFromBases(bases))
    /\ classes' = Append(classes,
            [name |-> body.name, params |-> body.params, nreq |-> body.nreq,
             methods |-> body.methods, bases |-> bases, mro |-> <<NClasses + 1>> \o MroFromBases(bases),
             suffix |-> suffix])
    /\ last' = [NoCall EXCEPT !.op = "class", !.cls = NClasses + 1]
    /\ UNCHANGED <<constructors, representers, yo2>>

DeclareClass(body, bases, suffix) == DeclareClassUpTo(MaxClasses, body, bases, suffix)

\* cls.is_yaml_tag_supported(yaml_tag)
IsYamlTagSupported(cls, yaml_tag) ==
    /\ Idle
    /\ last' = [NoCall EXCEPT !.op = "is_yaml_tag_supported", !.cls = cls,
                              !.tag = yaml_tag,
                              !.out = is_yaml_tag_supported(cls, yaml_tag)]
    /\ UNCHANGED <<classes, constructors, representers, yo2>>

\* the classes outside the YamlAble hierarchy that the decorator is tried on:
\* a plain class and a YamlObject2 subclass
OtherClasses == {PlainFoo, Yo2Foo}

\* yaml_info_decorate(cls, yaml_tag, yaml_tag_ns), also as @yaml_info(...)
YamlInfo(cls, yaml_tag, yaml_tag_ns) ==
    LET r == yaml_info_decorate(cls, yaml_tag, yaml_tag_ns)
    IN  /\ Idle
        /\ classes' = IF r.set THEN [classes EXCEPT ![cls].suffix = r.suffix]
                      ELSE classes
        /\ last' = [NoCall EXCEPT !.op = "yaml_info", !.cls = cls, !.tag = yaml_tag,
                                  !.ns = yaml_tag_ns, !.out = r.out]
        /\ UNCHANGED <<constructors, representers, yo2>>

\* obj.dumps_yaml(safe=safe)
DumpsYaml(obj, safe) ==
    /\ Idle
    /\ last' = [NoCall EXCEPT !.op = "dumps_yaml", !.cls = obj.cls, !.obj = obj,
                              !.out = dumps_yaml(obj, safe)]
    /\ UNCHANGED <<classes, constructors, representers, yo2>>

\* yaml.safe_load(doc)
SafeLoad(node) ==
    /\ Idle
    /\ last' = [NoCall EXCEPT !.op = "safe_load", !.node = node,
                              !.out = safe_load(node)]
    /\ UNCHANGED <<classes, constructors, representers, yo2>>

\* yaml.safe_load(obj.dumps_yaml())
RoundTrip(obj) ==
    LET doc == dumps_yaml(obj, TRUE)
    IN  /\ Idle
        /\ last' = [NoCall EXCEPT !.op = "round_trip", !.cls = obj.cls, !.obj = obj,
                                  !.doc = doc,
                                  !.node = IF Raised(doc) THEN NoNode ELSE doc.node,
                                  !.out = IF Raised(doc) THEN doc ELSE safe_load(doc.node)]
        /\ UNCHANGED <<classes, constructors, representers, yo2>>

Next ==
    \/ \E body \in ClassBodies, bases \in BaseLists, suffix \in BodySuffixes :
          DeclareClass(body, bases, suffix)
    \/ \E cls \in Declared \cup OtherClasses, yaml_tag \in TagArgs, yaml_tag_ns \in NsArgs :
          YamlInfo(cls, yaml_tag, yaml_tag_ns)
    \/ \E cls \in Declared, yaml_tag \in QueryTags : IsYamlTagSupported(cls, yaml_tag)
    \/ \E cls \in Declared : \E obj \in InstancesOf(cls), safe \in BOOLEAN :
          DumpsYaml(obj, safe)
    \/ \E node \in YamlAbleDocs : SafeLoad(node)
    \/ \E cls \in Declared : \E obj \in InstancesOf(cls) : RoundTrip(obj)
    \/ Continue

Spec == Init /\ [][Next]_vars

-----------------------------------------------------------------------------
(* Loading a document as an instance of one class *)

\* cls.loads_yaml(doc, safe=safe)
LoadsYaml(cls, node, safe) ==
    /\ Idle
    /\ \E loader \in IF safe THEN {"SafeLoader"} ELSE DefaultLoaders :
          last' = [NoCall EXCEPT !.op = "loads_yaml", !.cls = cls, !.node = node,
                                 !.ns = loader,
                                 !.doc = construct_object(loader, node),
                                 !.out = load_yaml(cls, node, loader)]
    /\ UNCHANGED <<classes, constructors, representers, yo2>>

\* the documents given to loads_yaml: tagged mappings, and the untagged ones
LoadedDocs == {n \in YamlAbleDocs : n.kind = "map"} \cup UntaggedDocs

NextLoad ==
    \/ \E body \in ClassBodies, bases \in BaseLists, suffix \in BodySuffixes :
          DeclareClass(body, bases, suffix)
    \/ \E cls \in Declared, node \in LoadedDocs, safe \in BOOLEAN :
          LoadsYaml(cls, node, safe)
    \/ Continue

SpecLoad == Init /\ [][NextLoad]_vars

-----------------------------------------------------------------------------
(* Classes that write their own conversion methods, under the legacy names *)
(* or under the dunder names.                                              *)

\* hand-written documents: one as the conversion methods write it, one as
\* vars(self) would
ConvertedDocs ==
    {[NoNode EXCEPT !.tag = YAMLABLE_PREFIX \o t, !.kind = "map", !.map = m] :
        t \in {"foo", "bar"},
        m \in { {<<"_a", "int:1">>, <<"_b", "str:hello">>},
                {<<"a", "int:1">>, <<"b", "str:hello">>} }}

NextLegacy ==
    \/ \E body \in ConvertingBodies, bases \in BaseLists, suffix \in {"foo", "bar"} :
          DeclareClass(body, bases, suffix)
    \/ \E cls \in Declared : \E obj \in InstancesOf(cls), safe \in BOOLEAN :
          DumpsYaml(obj, safe)
    \/ \E node \in ConvertedDocs : SafeLoad(node)
    \/ \E cls \in Declared : \E obj \in InstancesOf(cls) : RoundTrip(obj)
    \/ Continue

SpecLegacy == Init /\ [][NextLegacy]_vars

-----------------------------------------------------------------------------
(* The enumeration of the hierarchy, over hierarchies of three classes *)

\* _get_all_subclasses(YamlAble)
GetAllSubclassesCall ==
    /\ Idle
    /\ last' = [NoCall EXCEPT !.op = "get_all_subclasses",
                              !.out = [RetNone EXCEPT !.tried = Candidates]]
    /\ UNCHANGED <<classes, constructors, representers, yo2>>

NextHierarchy ==
    \/ \E body \in ClassBodies, bases \in BaseLists, suffix \in {Absent, "foo"} :
          DeclareClassUpTo(MaxHierarchy, body, bases, suffix)
    \/ GetAllSubclassesCall
    \/ Continue

SpecHierarchy == Init /\ [][NextHierarchy]_vars

-----------------------------------------------------------------------------
(* A document loaded again after the hierarchy changed *)

\* a slip: a tag that found no handler is remembered and fails again
decode_again_cached(earlier, yaml_tag, node) ==
    IF Raised(earlier) THEN earlier ELSE decode_yamlable(yaml_tag, node)

\* decode_yamlable called for a tag it was called for before, with outcome
\* `earlier`: the candidates are enumerated anew and nothing is kept
decode_again(earlier, yaml_tag, node) == decode_yamlable(yaml_tag, node)

\* yaml.safe_load(doc) of a document loaded before with outcome `earlier`
safe_load_again(earlier, node) ==
    decode_again(earlier, SubSeq(node.tag, Len(YAMLABLE_PREFIX) + 1, Len(node.tag)), node)

\* class <name>(<bases>): ... right after yaml.safe_load(doc); the caller
\* keeps the document and the outcome of the load
DeclareAfterLoad(body, bases, suffix) ==
    /\ last.op = "safe_load"
    /\ NClasses < MaxClasses
    /\ ~InSeq(-1, MroFromBases(bases))
    /\ classes' = Append(classes,
            [name |-> body.name, params |-> body.params, nreq |-> body.nreq,
             methods |-> body.methods, bases |-> bases,
             mro |-> <<NClasses + 1>> \o MroFromBases(bases), suffix |-> suffix])
    /\ last' = [last EXCEPT !.op = "load_declare", !.cls = NClasses + 1,
                            !.doc = last.out, !.out = NoOut]
    /\ UNCHANGED <<constructors, representers, yo2>>

\* yaml_info(yaml_tag)(cls) right after yaml.safe_load(doc)
DecorateAfterLoad(cls, yaml_tag) ==
    LET r == yaml_info_decorate(cls, yaml_tag, PyNone)
    IN  /\ last.op = "safe_load"
        /\ ~Raised(r.out)
        /\ classes' = IF r.set THEN [classes EXCEPT ![cls].suffix = r.suffix]
                      ELSE classes
        /\ last' = [last EXCEPT !.op = "load_decorate", !.cls = cls, !.tag = yaml_tag,
                                !.doc = last.out, !.out = NoOut]
        /\ UNCHANGED <<constructors, representers, yo2>>

\* yaml.safe_load(doc) of the same document, after the class was declared or
\* decorated
LoadAgain ==
    /\ last.op \in {"load_declare", "load_decorate"}
    /\ last' = [last EXCEPT !.op = IF last.op = "load_declare" THEN "load_declare_load"
                                   ELSE "load_decorate_load",
                            !.out = safe_load_again(last.doc, last.node)]
    /\ UNCHANGED <<classes, constructors, representers, yo2>>

\* the documents loaded twice
ReloadedDocs == {n \in YamlAbleDocs : n.kind = "map" /\ n.tag = YAMLABLE_PREFIX \o "foo"}

NextLive ==
    \/ \E body \in ClassBodies, bases \in BaseLists, suffix \in BodySuffixes :
          DeclareClass(body, bases, suffix)
    \/ \E node \in ReloadedDocs : SafeLoad(node)
    \/ \E body \in ClassBodies, bases \in BaseLists, suffix \in BodySuffixes :
          DeclareAfterLoad(body, bases, suffix)
    \/ \E cls \in Declared, yaml_tag \in {"foo", "other"} : DecorateAfterLoad(cls, yaml_tag)
    \/ LoadAgain
    \/ Continue

SpecLive == Init /\ [][NextLive]_vars

-----------------------------------------------------------------------------
(* Classes declared under YamlObject2 *)

\* what a class body writes for yaml_tag (or nothing at all)
Yo2BodyTags == {Absent, PyNone, "!foo", "!bar"}

\* a slip: a body without yaml_tag is accepted when an ancestor is abstract
metaclass_init_inherit_none(cls_mro, own_tag) ==
    IF own_tag = Absent /\ Yo2TagFrom(Tail(cls_mro)) # PyNone
    THEN [out |-> Raise("TypeError", "yaml_tag field is not redefined by class"),
          register |-> FALSE]
    ELSE [out |-> RetNone, register |-> own_tag # Absent /\ own_tag # PyNone]

\* YAMLObjectMetaclassStrict.__init__(cls, name, bases, kwds): what it raises,
\* and whether it registers from_yaml and to_yaml; own_tag is kwds['yaml_tag']
metaclass_init(cls_mro, own_tag) ==
    IF own_tag # Absent
    THEN IF own_tag # PyNone
         THEN [out |-> RetNone, register |-> TRUE]
         ELSE [out |-> RetNone, register |-> FALSE]
    ELSE [out |-> Raise("TypeError", "yaml_tag field is not redefined by class"),
          register |-> FALSE]

\* class <name>(<base>): [yaml_tag = <tag>]; def __init__ ...
DeclareYo2(body, base, yaml_tag) ==
    LET cls == YamlObject2 + Len(yo2.classes) + 1
        mro == <<cls>> \o Yo2Mro(base)
        r == metaclass_init(mro, yaml_tag)
    IN  /\ Idle
        /\ Len(yo2.classes) < MaxYo2Classes
        /\ yo2' = IF Raised(r.out) THEN yo2
                  ELSE [classes |-> Append(yo2.classes,
                            [name |-> body.name, params |-> body.params,
                             nreq |-> body.nreq, base |-> base, mro |-> mro,
                             yaml_tag |-> yaml_tag]),
                        yaml_constructors |->
                            IF r.register
                            THEN [yo2.yaml_constructors EXCEPT !["SafeLoader"] =
                                     DictPut(@, yaml_tag, cls)]
                            ELSE yo2.yaml_constructors,
                        yaml_representers |->
                            IF r.register
                            THEN [yo2.yaml_representers EXCEPT !["Dumper"] =
                                     DictPut(@, cls, "to_yaml")]
                            ELSE yo2.yaml_representers]
        /\ last' = [NoCall EXCEPT !.op = "yo2_class", !.cls = cls, !.tag = yaml_tag,
                                  !.ns = ToString(base), !.out = r.out]
        /\ UNCHANGED <<classes, constructors, representers>>

\* the documents written by hand under the tags of YamlObject2 classes
Yo2Docs ==
    {[n EXCEPT !.tag = t] :
        n \in { [NoNode EXCEPT !.kind = "map", !.map = {<<"a", "int:1">>, <<"b", "str:hello">>}],
                [NoNode EXCEPT !.kind = "seq", !.seq = <<"int:1">>] },
        t \in {"!foo", "!bar"}}

\* type(obj).loads_yaml(obj.dumps_yaml(safe=False))
LoadsDumped(obj) ==
    LET doc == dumps_yaml(obj, FALSE)
    IN  /\ Idle
        /\ last' = [NoCall EXCEPT !.op = "loads_dumped", !.cls = obj.cls, !.obj = obj,
                                  !.doc = doc,
                                  !.node = IF Raised(doc) THEN NoNode ELSE doc.node,
                                  !.out = IF Raised(doc) THEN doc
                                          ELSE load_yaml(obj.cls, doc.node, "SafeLoader")]
        /\ UNCHANGED <<classes, constructors, representers, yo2>>

NextYo2 ==
    \/ \E body \in ClassBodies, base \in {YamlObject2} \cup Yo2Declared,
          yaml_tag \in Yo2BodyTags : DeclareYo2(body, base, yaml_tag)
    \/ \E cls \in Yo2Declared : \E obj \in InstancesOf(cls), safe \in BOOLEAN :
          DumpsYaml(obj, safe)
    \/ \E cls \in Yo2Declared, node \in Yo2Docs, safe \in BOOLEAN :
          LoadsYaml(cls, node, safe)
    \/ \E cls \in Yo2Declared : \E obj \in InstancesOf(cls) : LoadsDumped(obj)
    \/ Continue

SpecYo2 == Init /\ [][NextYo2]_vars

-----------------------------------------------------------------------------
(* Codecs registered with PyYaml *)

\* the tables after the loop over loaders and the loop over dumpers and types
RECURSIVE AddRepresenters(_, _, _, _)
AddRepresenters(table, types, i, handler) ==
    IF i > Len(types) THEN table
    ELSE AddRepresenters(add_multi_representer(table, types[i], handler),
                         types, i + 1, handler)

\* codec.register_with_pyyaml(loaders, dumpers)
RegisterWithPyyaml(codec, loaders, dumpers) ==
    /\ Idle
    /\ constructors' = [l \in Loaders |->
            IF l \in loaders
            THEN add_multi_constructor(constructors[l], get_yaml_prefix(codec), codec)
            ELSE constructors[l]]
    /\ representers' = [d \in Dumpers |->
            IF d \in dumpers
            THEN AddRepresenters(representers[d], get_known_types(codec), 1, codec)
            ELSE representers[d]]
    /\ last' = [NoCall EXCEPT !.op = "register_with_pyyaml", !.tag = codec]
    /\ UNCHANGED <<classes, yo2>>

\* yaml.dump(obj) / yaml.safe_dump(obj) of an instance of a plain class
Dump(obj, safe) ==
    /\ Idle
    /\ last' = [NoCall EXCEPT !.op = "dump", !.cls = obj.cls, !.obj = obj,
                              !.ns = IF safe THEN "SafeDumper" ELSE "Dumper",
                              !.out = dumps_yaml(obj, safe)]
    /\ UNCHANGED <<classes, constructors, representers, yo2>>

\* yaml.load(doc, Loader=loader)
Load(loader, node) ==
    /\ Idle
    /\ last' = [NoCall EXCEPT !.op = "load", !.node = node, !.ns = loader,
                              !.out = construct_object(loader, node)]
    /\ UNCHANGED <<classes, constructors, representers, yo2>>

\* yaml.load(yaml.dump(obj, Dumper=dumper), Loader=loader) of an instance of a plain class
CodecRoundTrip(obj, dumper, loader) ==
    LET doc == represent_data(dumper, obj)
    IN  /\ Idle
        /\ last' = [NoCall EXCEPT !.op = "codec_round_trip", !.cls = obj.cls,
                                  !.obj = obj, !.doc = doc, !.ns = dumper, !.tag = loader,
                                  !.node = IF Raised(doc) THEN NoNode ELSE doc.node,
                                  !.out = IF Raised(doc) THEN doc
                                          ELSE construct_object(loader, doc.node)]
        /\ UNCHANGED <<classes, constructors, representers, yo2>>

NextCodec ==
    \/ \E codec \in Codecs, loaders \in SUBSET Loaders, dumpers \in SUBSET Dumpers :
          RegisterWithPyyaml(codec, loaders, dumpers)
    \/ \E obj \in PlainInstances, safe \in BOOLEAN : Dump(obj, safe)
    \/ \E loader \in Loaders, node \in CodecDocs : Load(loader, node)
    \/ \E obj \in PlainInstances, dumper \in Dumpers, loader \in Loaders :
          CodecRoundTrip(obj, dumper, loader)
    \/ Continue

SpecCodec == Init /\ [][NextCodec]_vars

-----------------------------------------------------------------------------
(* Classes made virtual subclasses with YamlAble.register(cls) *)

\* class <name>(object): __yaml_tag_suffix__ = <suffix>; def __init__ ...
\* followed by YamlAble.register(<name>)
RegisterVirtual(body, suffix) ==
    /\ Idle
    /\ NClasses < MaxClasses
    /\ classes' = Append(classes,
            [name |-> body.name, params |-> body.params, nreq |-> body.nreq,
             methods |-> body.methods, bases |-> <<>>, mro |-> <<NClasses + 1>>,
             suffix |-> suffix])
    /\ last' = [NoCall EXCEPT !.op = "register", !.cls = NClasses + 1]
    /\ UNCHANGED <<constructors, representers, yo2>>

NextVirtual ==
    \/ \E body \in ClassBodies, suffix \in {"foo", "bar"} : RegisterVirtual(body, suffix)
    \/ \E body \in ClassBodies, bases \in BaseLists, suffix \in {"foo", "bar"} :
          DeclareClass(body, bases, suffix)
    \/ \E cls \in Declared : \E obj \in InstancesOf(cls), safe \in BOOLEAN : Dump(obj, safe)
    \/ \E node \in YamlAbleDocs : SafeLoad(node)
    \/ Continue

SpecVirtual == Init /\ [][NextVirtual]_vars

-----------------------------------------------------------------------------
(* Suffixes written without the decorator: in the class body or by an       *)
(* assignment to the class attribute.                                      *)

\* the suffixes a class body or an assignment may write
AssignedSuffixes == {"foo", "!foo"}

\* cls.__yaml_tag_suffix__ = suffix
SetSuffix(cls, suffix) ==
    /\ Idle
    /\ classes' = [classes EXCEPT ![cls].suffix = suffix]
    /\ last' = [NoCall EXCEPT !.op = "setattr", !.cls = cls, !.tag = suffix,
                              !.out = RetNone]
    /\ UNCHANGED <<constructors, representers, yo2>>

NextAssign ==
    \/ \E body \in ClassBodies, bases \in BaseLists,
          suffix \in AssignedSuffixes \cup {Absent} :
            DeclareClass(body, bases, suffix)
    \/ \E cls \in Declared, suffix \in AssignedSuffixes : SetSuffix(cls, suffix)
    \/ \E cls \in Declared, yaml_tag \in TagArgs, yaml_tag_ns \in NsArgs :
          YamlInfo(cls, yaml_tag, yaml_tag_ns)
    \/ \E cls \in Declared : \E obj \in InstancesOf(cls), safe \in BOOLEAN :
          DumpsYaml(obj, safe)
    \/ Continue

SpecAssign == Init /\ [][NextAssign]_vars

-----------------------------------------------------------------------------
(* A codec whose prefix has no trailing "/" is registered and used.        *)

\* hand-written documents under the prefix as registered and as written by encode
BareDocs ==
    {[n EXCEPT !.tag = p \o t] :
        n \in CodecNodeShapes, p \in {"!bare", "!bare/"}, t \in {"yaml.tests.Foo"}}

NextPrefix ==
    \/ \E codec \in BareCodecs, loaders \in SUBSET Loaders, dumpers \in SUBSET Dumpers :
          RegisterWithPyyaml(codec, loaders, dumpers)
    \/ \E obj \in PlainInstances, safe \in BOOLEAN : Dump(obj, safe)
    \/ \E loader \in Loaders, node \in BareDocs : Load(loader, node)
    \/ \E obj \in PlainInstances, dumper \in Dumpers, loader \in Loaders :
          CodecRoundTrip(obj, dumper, loader)
    \/ Continue

SpecPrefix == Init /\ [][NextPrefix]_vars

-----------------------------------------------------------------------------
(* Two codecs with different prefixes, registered next to each other and   *)
(* next to the YamlAble hooks.                                             *)

FrameCodecs == {"MyCodec", "BareCodec"}

\* the documents loaded while the two codecs are registered
FrameDocs ==
    {[n EXCEPT !.tag = p \o "yaml.tests.Foo"] :
        n \in {m \in CodecNodeShapes : m.kind = "map"}, p \in {"!mycodec/", "!bare"}}

NextFrame ==
    \/ \E codec \in FrameCodecs, loaders \in SUBSET Loaders, dumpers \in SUBSET Dumpers :
          RegisterWithPyyaml(codec, loaders, dumpers)
    \/ \E obj \in PlainInstances, safe \in BOOLEAN : Dump(obj, safe)
    \/ \E loader \in Loaders, node \in FrameDocs : Load(loader, node)
    \/ Continue

SpecFrame == Init /\ [][NextFrame]_vars

-----------------------------------------------------------------------------
(* Codecs whose to_yaml_dict does not return a (str, mapping) pair are     *)
(* registered next to MyCodec and asked to dump.                           *)

NextMalformed ==
    \/ \E codec \in MalformedCodecs \cup {"MyCodec"},
          loaders \in {{}, Loaders}, dumpers \in SUBSET Dumpers :
            RegisterWithPyyaml(codec, loaders, dumpers)
    \/ \E obj \in PlainInstances, safe \in BOOLEAN : Dump(obj, safe)
    \/ Continue

SpecMalformed == Init /\ [][NextMalformed]_vars

-----------------------------------------------------------------------------
(* Predicates over the last call and its outcome *)

\* the last call ran decode_yamlable on last.node
DecodeRan == last.op \in {"safe_load", "round_trip"} /\ last.node.tag # ""

\* the suffix that PyYaml hands to decode_yamlable
DecodedTag == SubSeq(last.node.tag, Len(YAMLABLE_PREFIX) + 1, Len(last.node.tag))

\* candidate c accepts the decoded tag
Supports(c) ==
    LET r == is_yaml_tag_supported(c, DecodedTag) IN ~Raised(r) /\ r.bool

\* candidate c builds an object from the decoded node
Builds(c) == ~Raised(read_yaml_node_as_yamlobject(c, last.node, DecodedTag))

\* what the search holds against an attempt in its errors dict
AttemptText(a) ==
    IF a.check = "raise" THEN ErrText(is_yaml_tag_supported(a.cls, DecodedTag))
    ELSE IF a.check = "false" THEN NotSupportedText
    ELSE ErrText(read_yaml_node_as_yamlobject(a.cls, last.node, DecodedTag))

IsString(suffix) == suffix # Absent /\ suffix # PyNone

NoSuffixText == "does not seem to have a non-None '__yaml_tag_suffix__' field"

-----------------------------------------------------------------------------
(* C1 *)

DeclaringClasses(suffix) == {c \in Declared : Own(c) = suffix}

-----------------------------------------------------------------------------
(* C2 *)

\* the codec bound to the class of the last object on the dumper used
DumpCodec == FindRepresenter(representers[last.ns], TypeMro(last.cls))

\* the handler bound to the prefix "!mycodec/" on the loader used, "" when none is
LoadCodec(loader) ==
    LET i == FindConstructor(constructors[loader], 1, "!mycodec/")
    IN  IF i = 0 THEN "" ELSE constructors[loader][i][2]

-----------------------------------------------------------------------------
(* C3 *)

\* C3 as stated: the object returned is built by the first candidate whose
\* is_yaml_tag_supported returns true, and no candidate after it is consulted.
C3_FirstSupportingWins ==
    (DecodeRan /\ last.out.kind = "obj")
        => \E k \in 1..Len(Candidates) :
              /\ Supports(Candidates[k])
              /\ \A j \in 1..(k - 1) : ~Supports(Candidates[j])
              /\ last.out.obj.cls = Candidates[k]
              /\ Len(last.out.attempts) = k

-----------------------------------------------------------------------------
(* C4 *)

\* C4: an exception of a candidate's is_yaml_tag_supported never ends the
\* search: the candidate after it is consulted, the exception is not what the
\* decode raises, and a candidate that accepts the tag and builds the node
\* decodes it whatever the candidates before it raised.
C4_CheckErrorsDoNotAbort ==
    LET cs == Candidates
    IN  DecodeRan
        => /\ \A i \in 1..Len(last.out.attempts) :
                  (last.out.attempts[i].check = "raise" /\ i < Len(cs))
                      => Len(last.out.attempts) > i
           /\ (\E k \in 1..Len(cs) : Supports(cs[k]) /\ Builds(cs[k]))
                  => last.out.kind = "obj"
           /\ Raised(last.out)
                  => /\ last.out.exc = "TypeError"
                     /\ last.out.msg = "No YamlAble subclass found able to decode object"
                     /\ Len(last.out.attempts) = Len(cs)

\* the first candidate's check raised NotImplementedError and the second decoded
C4_Witness ==
    /\ DecodeRan /\ last.out.kind = "obj"
    /\ Len(last.out.attempts) = 2
    /\ last.out.attempts[1].check = "raise"
    /\ last.out.attempts[1].exc = "NotImplementedError"
    /\ last.out.obj.cls = Candidates[2]

-----------------------------------------------------------------------------
(* C5 *)

\* C5: when no candidate decodes the tag, the TypeError names every candidate
\* tried and reports, for every candidate, the error or refusal recorded for it.
C5_EveryCandidateReported ==
    (DecodeRan /\ Raised(last.out))
        => /\ last.out.exc = "TypeError"
           /\ last.out.msg = "No YamlAble subclass found able to decode object"
           /\ last.out.tried = Candidates
           /\ Len(last.out.attempts) = Len(Candidates)
           /\ \A i \in 1..Len(last.out.attempts) :
                  <<NameOf(last.out.attempts[i].cls), AttemptText(last.out.attempts[i])>>
                      \in last.out.errors

-----------------------------------------------------------------------------
(* C6 *)

\* C6: a tag under a registered codec's prefix whose suffix the codec rejects
\* makes the load fail with an error; no value is returned and no from_yaml_*
\* method is called.
C6_UnsupportedSuffixFails ==
    (/\ last.op = "load"
     /\ LoadCodec(last.ns) \in Codecs
     /\ ~codec_is_yaml_tag_supported(LoadCodec(last.ns),
            SubSeq(last.node.tag, Len("!mycodec/") + 1, Len(last.node.tag))))
        => /\ Raised(last.out)
           /\ \A i \in 1..Len(last.out.attempts) : ~last.out.attempts[i].built

-----------------------------------------------------------------------------
(* C7 *)

-----------------------------------------------------------------------------
(* C8 *)

\* C8 as stated: true iff the own suffix equals the tag, and NotImplementedError
\* whenever the class has no suffix of its own, inherited or not.
C8_NotImplementedWhenNoOwnSuffix ==
    last.op = "is_yaml_tag_supported"
        => IF IsString(Own(last.cls))
           THEN last.out = RetBool(Own(last.cls) = last.tag)
           ELSE Raised(last.out) /\ last.out.exc = "NotImplementedError"

\* some ancestor of cls gives it a suffix that is not None
InheritsSuffix(cls) == Own(cls) = Absent /\ IsString(ResolvedSuffix(cls))

\* C8 (amended): true iff the own suffix equals the tag; NotImplementedError
\* when the suffix the class resolves to is None; TypeError when a suffix that
\* is not None is only inherited from an ancestor.
C8_SupportedIffOwnSuffix ==
    last.op = "is_yaml_tag_supported"
        => IF IsString(Own(last.cls))
           THEN last.out = RetBool(Own(last.cls) = last.tag)
           ELSE IF InheritsSuffix(last.cls)
           THEN /\ Raised(last.out) /\ last.out.exc = "TypeError"
                /\ last.out.msg = "__yaml_tag_suffix__ field is not redefined by class"
           ELSE /\ Raised(last.out) /\ last.out.exc = "NotImplementedError"
                /\ last.out.msg = NoSuffixText

C8_Witness ==
    /\ last.op = "is_yaml_tag_supported"
    /\ InheritsSuffix(last.cls)
    /\ ResolvedSuffix(last.cls) = last.tag
    /\ Raised(last.out) /\ last.out.exc = "TypeError"

-----------------------------------------------------------------------------
(* C9 *)

\* C9: the tag written for an instance is "!yamlable/" + the suffix that its
\* exact class declares itself; an inherited suffix is never written.
C9_OwnSuffixOnlyInTag ==
    (last.op = "dumps_yaml" /\ last.out.kind = "node")
        => /\ IsString(Own(last.cls))
           /\ last.out.node.tag = YAMLABLE_PREFIX \o Own(last.cls)

-----------------------------------------------------------------------------
(* C10 *)

\* C10: @yaml_info(yaml_tag=t) sets the own suffix of the class to t,
\* @yaml_info(yaml_tag_ns=ns) sets it to ns + "." + the class name, and the
\* instances of the class are then dumped under "!yamlable/" + that suffix.
C10_YamlInfoSetsSuffix ==
    (/\ last.op = "yaml_info"
     /\ last.cls \in Declared
     /\ (last.tag = PyNone) # (last.ns = PyNone)
     /\ ~StartsWith(last.tag, "!"))
        => /\ ~Raised(last.out)
           /\ last.ns = PyNone => Own(last.cls) = last.tag
           /\ last.ns # PyNone => Own(last.cls) = last.ns \o "." \o NameOf(last.cls)
           /\ \A obj \in InstancesOf(last.cls), safe \in BOOLEAN :
                  /\ dumps_yaml(obj, safe).kind = "node"
                  /\ dumps_yaml(obj, safe).node.tag = YAMLABLE_PREFIX \o Own(last.cls)

C10_Witness ==
    /\ last.op = "yaml_info"
    /\ last.cls \in Declared
    /\ last.ns = "ns" /\ last.tag = PyNone
    /\ Own(last.cls) = "ns.Foo"
    /\ \E obj \in InstancesOf(last.cls) :
           dumps_yaml(obj, TRUE).node.tag = "!yamlable/ns.Foo"

-----------------------------------------------------------------------------
(* C11 *)

\* C11: a call of yaml_info / yaml_info_decorate with both yaml_tag and
\* yaml_tag_ns, or with neither, raises ValueError and leaves the suffix of
\* every class as it was.
C11_BothOrNeitherRejected ==
    [][(last'.op = "yaml_info" /\ (last'.tag = PyNone) = (last'.ns = PyNone))
          => /\ Raised(last'.out)
             /\ last'.out.exc = "ValueError"
             /\ classes' = classes]_vars

\* a class that declares the suffix foo is decorated with both arguments
C11_Witness ==
    /\ last.op = "yaml_info"
    /\ last.tag = "foo" /\ last.ns = "ns"
    /\ last.cls \in Declared
    /\ Raised(last.out) /\ last.out.exc = "ValueError"
    /\ last.out.msg = "Only one of 'yaml_tag' and 'yaml_tag_ns' should be provided"
    /\ Own(last.cls) = "foo"

-----------------------------------------------------------------------------
(* C12 *)

\* C12: no YamlAble class ever carries an own suffix that starts with "!",
\* whether the suffix comes from the class body, from an assignment or from
\* @yaml_info, and an attempt to set one is rejected with ValueError.
C12_NoBangSuffix ==
    /\ \A c \in Declared : ~StartsWith(Own(c), "!")
    /\ (last.op \in {"setattr", "yaml_info"} /\ StartsWith(last.tag, "!"))
           => (Raised(last.out) /\ last.out.exc = "ValueError")

-----------------------------------------------------------------------------
(* C13 *)

-----------------------------------------------------------------------------
(* C14 *)

\* the first candidate that accepts the decoded tag, 0 when there is none
FirstSupporting ==
    LET cs == Candidates
        ks == {k \in 1..Len(cs) : Supports(cs[k])}
    IN  IF ks = {} THEN 0
        ELSE cs[CHOOSE k \in ks : \A j \in ks : k <= j]

\* Foo(a=a, b="hey") as an instance of cls
FooOf(cls, a) == [cls |-> cls, vars |-> {<<"a", a>>, <<"b", DefaultOf("b")>>}]

\* C14: with the default construction methods, a class Foo(a, b=default)
\* decodes the mapping {a: 1} as Foo(**mapping) and the sequence [1] as
\* Foo(*sequence), both Foo(a=1, b=default), and the scalar 1 as Foo('1'):
\* the text of the scalar, not resolved, as the only positional argument.
C14_DefaultConstruction ==
    LET c == FirstSupporting
    IN  (/\ DecodeRan
         /\ c # 0
         /\ classes[c].params = <<"a", "b">>)
        =>     /\ last.node = [NoNode EXCEPT !.tag = last.node.tag, !.kind = "map",
                                             !.map = {<<"a", "int:1">>}]
                      => last.out.kind = "obj" /\ last.out.obj = FooOf(c, "int:1")
               /\ last.node = [NoNode EXCEPT !.tag = last.node.tag, !.kind = "seq",
                                             !.seq = <<"int:1">>]
                      => last.out.kind = "obj" /\ last.out.obj = FooOf(c, "int:1")
               /\ last.node = [NoNode EXCEPT !.tag = last.node.tag, !.kind = "scalar",
                                             !.text = "1"]
                      => last.out.kind = "obj" /\ last.out.obj = FooOf(c, "str:1")

\* the scalar document is decoded into Foo('1')
C14_Witness ==
    /\ last.op = "safe_load"
    /\ last.node.kind = "scalar" /\ last.node.text = "1"
    /\ last.out.kind = "obj"
    /\ classes[last.out.obj.cls].params = <<"a", "b">>
    /\ last.out.obj.vars = {<<"a", "str:1">>, <<"b", "str:hey">>}

-----------------------------------------------------------------------------
(* C15 *)

\* the suffix that PyYaml hands to the codec bound to "!mycodec/"
LoadedSuffix == SubSeq(last.node.tag, Len("!mycodec/") + 1, Len(last.node.tag))

\* C15: under a tag it supports, a codec without from_yaml_list raises
\* NotImplementedError naming the sequence on a sequence node, one without
\* from_yaml_scalar raises NotImplementedError naming the scalar on a scalar
\* node, and mapping nodes are still decoded; a codec that overrides the two
\* methods decodes the sequence and the scalar with them.
C15_UnsupportedShapes ==
    (/\ last.op = "load"
     /\ LoadCodec(last.ns) \in Codecs
     /\ codec_is_yaml_tag_supported(LoadCodec(last.ns), LoadedSuffix))
        => LET typ == YamlTagToType(LoadedSuffix)
           IN  IF last.node.kind = "map"
               THEN /\ last.out.exc # "NotImplementedError"
                    /\ DictKeys(last.node.map) = PlainParamSet(typ)
                           => /\ last.out.kind = "obj"
                              /\ last.out.obj = [cls |-> typ, vars |-> last.node.map]
               ELSE IF LoadCodec(last.ns) = "MyCodec"
               THEN /\ Raised(last.out)
                    /\ last.out.exc = "NotImplementedError"
                    /\ last.out.msg =
                          IF last.node.kind = "seq"
                          THEN "This codec does not support loading objects from sequence."
                          ELSE "This codec does not support loading objects from scalar."
               ELSE /\ last.out.exc # "NotImplementedError"
                    /\ Len(PlainParams(typ)) = 1
                           => /\ last.out.kind = "obj"
                              /\ last.out.obj.cls = typ
                              /\ last.out.obj.vars =
                                    {<<PlainParams(typ)[1],
                                       IF last.node.kind = "seq" THEN last.node.seq[1]
                                       ELSE "str:" \o last.node.text>>}

\* MyCodec is given a sequence under the tag of Bar
C15_Witness ==
    /\ last.op = "load"
    /\ LoadCodec(last.ns) = "MyCodec"
    /\ last.node.tag = "!mycodec/yaml.tests.Bar"
    /\ last.node.kind = "seq"
    /\ Raised(last.out) /\ last.out.exc = "NotImplementedError"

-----------------------------------------------------------------------------
(* C16 *)

\* the codec bound to the plain type typ on a dumper, "" when none is
TypeCodec(dumper, typ) == FindRepresenter(representers[dumper], <<typ>>)

\* C16: a call of register_with_pyyaml binds the prefix of the codec, on every
\* loader it names, and each of its types, on every dumper it names, to that
\* codec, whatever was bound before; every other binding stays as it was, no
\* other call changes a binding, and no binding is ever removed.  A load is
\* decoded by the codec its loader holds for the prefix.
C16_LastRegistrationWins ==
    [][/\ \A codec \in Codecs, loaders \in SUBSET Loaders, dumpers \in SUBSET Dumpers :
             RegisterWithPyyaml(codec, loaders, dumpers)
                => /\ \A l \in Loaders :
                         LoadCodec(l)' = IF l \in loaders THEN codec ELSE LoadCodec(l)
                   /\ \A d \in Dumpers, t \in PlainTypes :
                         TypeCodec(d, t)' = IF d \in dumpers THEN codec
                                            ELSE TypeCodec(d, t)
       /\ last'.op # "register_with_pyyaml"
             => UNCHANGED <<constructors, representers>>
       /\ \A l \in Loaders :
             /\ LoadCodec(l) # "" => LoadCodec(l)' # ""
             /\ FindConstructor(constructors[l], 1, YAMLABLE_PREFIX)' # 0
       /\ \A d \in Dumpers :
             /\ \A t \in PlainTypes : TypeCodec(d, t) # "" => TypeCodec(d, t)' # ""
             /\ TypeCodec(d, YamlAble)' = "encode_yamlable"
       /\ (last.op = "load" /\ LoadCodec(last.ns) \in Codecs)
             => last.out = codec_decode(LoadCodec(last.ns), LoadedSuffix, last.node)
       /\ (last.op = "dump" /\ TypeCodec(last.ns, last.cls) \in Codecs)
             => last.out = codec_encode(TypeCodec(last.ns, last.cls), last.obj, FALSE)
      ]_vars

\* MyCodec2 holds the prefix on Loader and decodes a sequence there, while
\* SafeLoader still holds MyCodec
C16_Witness ==
    /\ last.op = "load" /\ last.ns = "Loader"
    /\ LoadCodec("Loader") = "MyCodec2"
    /\ LoadCodec("SafeLoader") = "MyCodec"
    /\ last.node.kind = "seq"
    /\ last.out.kind = "obj"

-----------------------------------------------------------------------------
(* C17 *)

\* the handler bound on a loader to the prefix that get_yaml_prefix returns
PrefixCodec(loader, codec) ==
    LET i == FindConstructor(constructors[loader], 1, get_yaml_prefix(codec))
    IN  IF i = 0 THEN "" ELSE constructors[loader][i][2]

\* C17: a codec whose prefix does not end with "/" writes prefix + "/" +
\* suffix, and the document it wrote is decoded, on a loader it is registered
\* with, from exactly the suffix that to_yaml_dict returned, into an equal
\* instance.
C17_PrefixNormalizedBothWays ==
    (/\ last.op = "codec_round_trip"
     /\ DumpCodec \in BareCodecs
     /\ PrefixCodec(last.tag, DumpCodec) = DumpCodec)
        => /\ last.doc.kind = "node"
           /\ last.doc.node.tag =
                 get_yaml_prefix(DumpCodec) \o "/" \o codec_to_yaml_dict(DumpCodec, last.obj).suffix
           /\ last.out = codec_decode(DumpCodec,
                                      codec_to_yaml_dict(DumpCodec, last.obj).suffix,
                                      last.doc.node)
           /\ last.out.kind = "obj"
           /\ last.out.obj = last.obj

-----------------------------------------------------------------------------
(* C18 *)

\* the suffix that a loader holding the codec's prefix hands to decode for a tag
SuffixSeen(codec, tag) == SubSeq(tag, Len(get_yaml_prefix(codec)) + 1, Len(tag))

\* C18: the tag a codec writes carries a suffix that its is_yaml_tag_supported
\* accepts, so the codec accepts on decode every document it wrote.
C18_EmittedTagsAccepted ==
    (/\ last.op = "codec_round_trip"
     /\ DumpCodec \in AllCodecs
     /\ PrefixCodec(last.tag, DumpCodec) = DumpCodec)
        => /\ last.doc.kind = "node"
           /\ codec_is_yaml_tag_supported(DumpCodec, SuffixSeen(DumpCodec, last.doc.node.tag))
           /\ last.out.attempts = <<Attempt(-1, "true", "", TRUE)>>

-----------------------------------------------------------------------------
(* C19 *)

\* C19: YamlCodec.encode raises TypeError, and returns no node, when the
\* representation that to_yaml_dict returned is not a mapping or the suffix is
\* not a string; it returns a node when the pair is a (string, mapping) pair.
C19_MalformedPairRejected ==
    (last.op = "dump" /\ TypeCodec(last.ns, last.cls) \in AllCodecs)
        => LET pair == codec_to_yaml_dict(TypeCodec(last.ns, last.cls), last.obj)
           IN  IF pair.suffix_is_str /\ pair.dct_is_mapping
               THEN last.out.kind = "node"
               ELSE /\ Raised(last.out)
                    /\ last.out.exc = "TypeError"
                    /\ last.out.msg = "to_yaml_dict did not return correct results."
                    /\ last.out.node = NoNode

\* the codec bound to Foo returns an int as the suffix
C19_Witness ==
    /\ last.op = "dump"
    /\ last.cls = PlainFoo
    /\ TypeCodec(last.ns, PlainFoo) = "IntSuffixCodec"
    /\ Raised(last.out) /\ last.out.exc = "TypeError"

-----------------------------------------------------------------------------
(* C20 *)

\* C20: cls.loads_yaml / cls.load_yaml return the decoded value when, and only
\* when, it is an instance of cls; when the document decodes to anything else
\* (an instance of another class, a dict, None) they raise TypeError.
C20_OnlyInstancesReturned ==
    (last.op = "loads_yaml" /\ ~Raised(last.doc))
        => IF last.doc.kind = "obj" /\ IsSubclass(last.doc.obj.cls, last.cls)
           THEN last.out = last.doc
           ELSE /\ Raised(last.out)
                /\ last.out.exc = "TypeError"
                /\ last.out.msg = NotAnInstanceText

\* the document decodes to an instance of a class that is not a subclass of cls
C20_Witness ==
    /\ last.op = "loads_yaml"
    /\ last.doc.kind = "obj"
    /\ last.doc.obj.cls # last.cls
    /\ ~IsSubclass(last.doc.obj.cls, last.cls)
    /\ Raised(last.out) /\ last.out.exc = "TypeError"

-----------------------------------------------------------------------------
(* C21 *)

\* the positions, in enumeration order, of the candidates that accept the
\* decoded tag and can build the decoded node
Constructible ==
    LET cs == Candidates
    IN  {k \in 1..Len(cs) : Supports(cs[k]) /\ Builds(cs[k])}

\* C21: when two or more classes declare the decoded suffix, the decode ends
\* with an object or with the no-handler TypeError, never with another
\* exception; when at least one of the candidates can build the node the decode
\* succeeds, and the object is built by the first such candidate in
\* enumeration order.
C21_SharedSuffixDecodes ==
    (DecodeRan /\ Cardinality(DeclaringClasses(DecodedTag)) >= 2)
        => LET ks == Constructible
           IN  IF ks = {}
               THEN /\ Raised(last.out)
                    /\ last.out.exc = "TypeError"
                    /\ last.out.msg = "No YamlAble subclass found able to decode object"
               ELSE /\ last.out.kind = "obj"
                    /\ last.out.obj.cls =
                           Candidates[CHOOSE k \in ks : \A j \in ks : k <= j]

\* two classes declare the suffix; the first cannot be built from the node,
\* the second is
C21_Witness ==
    /\ DecodeRan
    /\ Cardinality(DeclaringClasses(DecodedTag)) = 2
    /\ Len(last.out.attempts) = 2
    /\ last.out.attempts[1].check = "true" /\ ~last.out.attempts[1].built
    /\ last.out.kind = "obj"
    /\ last.out.obj.cls = Candidates[2]

-----------------------------------------------------------------------------
(* C22 *)

\* the YamlObject2 class registered for a tag, or for dumping, anywhere
Yo2Registered ==
    UNION {{p[2] : p \in yo2.yaml_constructors[l]} : l \in Loaders}
        \cup UNION {DictKeys(yo2.yaml_representers[d]) : d \in Dumpers}

\* C22: the declaration of a YamlObject2 subclass whose body does not define
\* yaml_tag raises TypeError whatever its base declares, and leaves no class
\* and no registration behind; a body with yaml_tag = None is accepted and
\* registers no constructor and no representer.
C22_BodyMustDefineTag ==
    /\ last.op = "yo2_class"
           => IF last.tag = Absent
              THEN /\ Raised(last.out) /\ last.out.exc = "TypeError"
                   /\ last.cls \notin Yo2Declared
              ELSE /\ ~Raised(last.out)
                   /\ last.cls \in Yo2Declared
                   /\ last.tag = PyNone => last.cls \notin Yo2Registered
    /\ \A c \in Yo2Declared :
          /\ Yo2Class(c).yaml_tag # Absent
          /\ Yo2Class(c).yaml_tag = PyNone => c \notin Yo2Registered

\* a class without yaml_tag in its body is declared under an abstract parent
\* (yaml_tag = None) and is refused
C22_Witness ==
    /\ last.op = "yo2_class"
    /\ last.tag = Absent
    /\ last.cls = YamlObject2 + 2
    /\ Yo2Class(YamlObject2 + 1).yaml_tag = PyNone
    /\ last.ns = ToString(YamlObject2 + 1)
    /\ Raised(last.out) /\ last.out.exc = "TypeError"

-----------------------------------------------------------------------------
(* C23 *)

\* the class whose from_yaml SafeLoader calls for the tag of last.cls
Yo2Constructor == DictGet(yo2.yaml_constructors["SafeLoader"], Yo2Class(last.cls).yaml_tag)

\* C23 as stated: an instance of a YamlObject2 subclass with a non-None
\* yaml_tag is dumped (safe=False) under that tag with its mapping, and
\* loads_yaml of the document returns an equal instance of the class.
C23_Yo2RoundTrip ==
    (last.op = "loads_dumped" /\ Yo2Class(last.cls).yaml_tag # PyNone)
        => /\ last.doc.kind = "node"
           /\ last.doc.node.tag = Yo2Class(last.cls).yaml_tag
           /\ last.doc.node.map = last.obj.vars
           /\ last.out.kind = "obj"
           /\ last.out.obj = last.obj

\* C23 (amended): the document is written under the tag of the class with the
\* mapping of the instance; loads_yaml returns an equal instance of the class
\* when no class declared later has the same yaml_tag.  When one has, the
\* document is built by the last class declared with the tag: its instance is
\* returned if that class is a subclass of the one asked and can be built
\* from the mapping, and TypeError is raised otherwise.
C23_Yo2RoundTripLastDeclared ==
    (last.op = "loads_dumped" /\ Yo2Class(last.cls).yaml_tag # PyNone)
        => /\ last.doc.kind = "node"
           /\ last.doc.node.tag = Yo2Class(last.cls).yaml_tag
           /\ last.doc.node.map = last.obj.vars
           /\ IF Yo2Constructor = last.cls
              THEN last.out.kind = "obj" /\ last.out.obj = last.obj
              ELSE LET built == CallKw(Yo2Constructor, last.obj.vars)
                   IN  IF ~Raised(built) /\ InSeq(last.cls, Yo2Mro(Yo2Constructor))
                       THEN last.out.kind = "obj" /\ last.out.obj = built.obj
                       ELSE Raised(last.out) /\ last.out.exc = "TypeError"

\* the only class declared with its tag gets its instance back
C23_Witness ==
    /\ last.op = "loads_dumped"
    /\ Yo2Class(last.cls).yaml_tag = "!foo"
    /\ Yo2Constructor = last.cls
    /\ last.doc.kind = "node" /\ last.doc.node.tag = "!foo"
    /\ last.out.kind = "obj" /\ last.out.obj = last.obj

-----------------------------------------------------------------------------
(* C24 *)

\* cls has the legacy methods and no dunder override, its own or inherited
LegacyOnly(cls) == "legacy" \in Styles(cls) /\ "dunder" \notin Styles(cls)

\* C24: for a class with the legacy methods and no dunder override, the
\* document dumped is the one to_yaml_dict writes, a mapping is decoded by
\* from_yaml_dict(dct, yaml_tag), and a class that is the same but for the
\* dunder names writes the same mapping and builds an object with the same
\* fields.
C24_LegacyNamesUsed ==
    /\ (/\ LegacyOnly(last.cls)
        /\ \/ last.op = "dumps_yaml" /\ last.out.kind = "node"
           \/ last.op = "round_trip" /\ last.doc.kind = "node")
           => LET written == IF last.op = "dumps_yaml" THEN last.out.node
                             ELSE last.doc.node
              IN  /\ written.map = custom_to_yaml_dict(last.obj)
                  /\ \A c \in Declared :
                        ("dunder" \in Styles(c) /\ ParamsOf(c) = ParamsOf(last.cls))
                            => to_yaml_dict([last.obj EXCEPT !.cls = c]) = written.map
    /\ (/\ DecodeRan
        /\ Cardinality(DeclaringClasses(DecodedTag)) = 1
        /\ FirstSupporting # 0
        /\ LegacyOnly(FirstSupporting))
           => LET r == custom_from_yaml_dict(FirstSupporting, last.node.map, DecodedTag)
              IN  /\ IF Raised(r) THEN Raised(last.out)
                     ELSE last.out.kind = "obj" /\ last.out.obj = r.obj
                  /\ \A c \in Declared :
                        ("dunder" \in Styles(c) /\ ParamsOf(c) = ParamsOf(FirstSupporting)
                            /\ NreqOf(c) = NreqOf(FirstSupporting))
                            => LET q == from_yaml_dict(c, last.node.map, DecodedTag)
                               IN  /\ Raised(q) = Raised(last.out)
                                   /\ ~Raised(q) => q.obj.vars = last.out.obj.vars

\* an instance of a class with the legacy names comes back equal from the
\* document to_yaml_dict wrote, while a class with the dunder names exists
C24_Witness ==
    /\ last.op = "round_trip"
    /\ classes[last.cls].methods = "legacy"
    /\ \E c \in Declared : classes[c].methods = "dunder" /\ Own(c) # Own(last.cls)
    /\ last.doc.node.map = {<<"_a", "int:1">>, <<"_b", "str:hello">>}
    /\ last.out.kind = "obj" /\ last.out.obj = last.obj

-----------------------------------------------------------------------------
(* C25 *)

\* C25 as stated: an instance of a class registered with YamlAble.register
\* and given a suffix is dumped under '!yamlable/' + suffix, and a document
\* under that tag which the class can build, when no other class declares the
\* suffix, is decoded to an instance of the class.
C25_VirtualSubclassWorks ==
    /\ (last.op = "dump" /\ Virtual(last.cls))
           => /\ last.out.kind = "node"
              /\ last.out.node.tag = YAMLABLE_PREFIX \o Own(last.cls)
    /\ (DecodeRan /\ \E c \in Declared : DeclaringClasses(DecodedTag) = {c} /\ Virtual(c))
           => LET c == CHOOSE d \in Declared : DeclaringClasses(DecodedTag) = {d}
                  built == read_yaml_node_as_yamlobject(c, last.node, DecodedTag)
              IN  ~Raised(built) => (last.out.kind = "obj" /\ last.out.obj = built.obj)

-----------------------------------------------------------------------------
(* C26 *)

\* the classes that have YamlAble among their ancestors
TransitiveSubclasses == {c \in Declared : InSeq(YamlAble, Mro(c))}

\* C26 as stated: the list _get_all_subclasses(YamlAble) returns holds every
\* transitive subclass of YamlAble, each exactly once, and not YamlAble.
C26_EachSubclassOnce ==
    last.op = "get_all_subclasses"
        => LET result == last.out.tried
           IN  /\ {result[i] : i \in 1..Len(result)} = TransitiveSubclasses
               /\ \A i, j \in 1..Len(result) : result[i] = result[j] => i = j
               /\ ~InSeq(YamlAble, result)

-----------------------------------------------------------------------------
(* C27 *)

\* C27 as stated: when the construction method of a candidate that accepts
\* the tag raises, the decode does not end there: the candidates after it are
\* tried, the outcome is an object or the no-handler TypeError, and that
\* TypeError carries the error recorded for the candidate.
C27_ConstructionErrorsRecorded ==
    DecodeRan
        => \A i \in 1..Len(last.out.attempts) :
              LET a == last.out.attempts[i]
              IN  (a.check = "true" /\ ~a.built)
                      => /\ i < Len(Candidates) => Len(last.out.attempts) > i
                         /\ Raised(last.out)
                                => /\ last.out.exc = "TypeError"
                                   /\ last.out.msg = "No YamlAble subclass found able to decode object"
                                   /\ Len(last.out.attempts) = Len(Candidates)
                                   /\ <<NameOf(a.cls), AttemptText(a)>> \in last.out.errors

-----------------------------------------------------------------------------
(* C28 *)

\* the last call loaded a document, changed the hierarchy and loaded the
\* document again
Reloaded == last.op \in {"load_declare_load", "load_decorate_load"}

\* C28: a document loaded again after a class was declared or decorated is
\* decoded against the hierarchy as it is then: the new or decorated class is
\* among the candidates tried, and when the first load found no handler and
\* the class now declares the suffix and can build the node, the second load
\* returns an instance of it.
C28_CandidatesRecomputed ==
    Reloaded
        => /\ last.out.tried = Candidates
           /\ (last.op = "load_declare_load" /\ YamlAble \in {Mro(last.cls)[i] : i \in 1..Len(Mro(last.cls))})
                  => InSeq(last.cls, last.out.tried)
           /\ (Raised(last.doc) /\ Own(last.cls) = DecodedTag /\ Builds(last.cls))
                  => /\ last.out.kind = "obj"
                     /\ last.out.obj.cls = last.cls

\* the first load found no handler, the class declared after it decodes the
\* second
C28_Witness ==
    /\ last.op = "load_declare_load"
    /\ Raised(last.doc)
    /\ last.doc.msg = "No YamlAble subclass found able to decode object"
    /\ last.doc.tried # <<>>
    /\ last.out.kind = "obj"
    /\ last.out.obj.cls = last.cls

-----------------------------------------------------------------------------
(* C29 *)

\* the handler a loader holds for exactly this prefix, "" when it holds none
ConstructorOf(loader, prefix) ==
    LET table == constructors[loader]
        ks == {k \in 1..Len(table) : table[k][1] = prefix}
    IN  IF ks = {} THEN "" ELSE table[CHOOSE k \in ks : TRUE][2]

\* the handler a dumper holds for exactly this type, "" when it holds none
RepresenterOf(dumper, typ) ==
    IF typ \in DictKeys(representers[dumper]) THEN DictGet(representers[dumper], typ)
    ELSE ""

FramePrefixes == {YAMLABLE_PREFIX, "!mycodec/", "!bare"}

FrameTypes == PlainTypes \cup {YamlAble}

\* C29: register_with_pyyaml of a codec binds the codec to its prefix on the
\* loaders passed in and to its known types on the dumpers passed in, and
\* changes nothing else: the other prefixes (that of YamlAble among them), the
\* other types, and the loaders and dumpers not passed in keep their
\* bindings; a dump or a load changes no binding.
C29_RegistrationFrame ==
    [][/\ \A codec \in FrameCodecs, loaders \in SUBSET Loaders, dumpers \in SUBSET Dumpers :
             RegisterWithPyyaml(codec, loaders, dumpers)
                => /\ \A l \in Loaders, p \in FramePrefixes :
                         ConstructorOf(l, p)' =
                             IF l \in loaders /\ p = get_yaml_prefix(codec) THEN codec
                             ELSE ConstructorOf(l, p)
                   /\ \A d \in Dumpers, t \in FrameTypes :
                         RepresenterOf(d, t)' =
                             IF d \in dumpers /\ InSeq(t, get_known_types(codec)) THEN codec
                             ELSE RepresenterOf(d, t)
       /\ last'.op \in {"dump", "load"} => UNCHANGED <<constructors, representers>>
      ]_vars

\* BareCodec was just registered on Loader only, where MyCodec keeps its
\* prefix and YamlAble its own
C29_Witness ==
    /\ last.op = "register_with_pyyaml"
    /\ last.tag = "BareCodec"
    /\ ConstructorOf("Loader", "!bare") = "BareCodec"
    /\ ConstructorOf("SafeLoader", "!bare") = ""
    /\ ConstructorOf("Loader", "!mycodec/") = "MyCodec"
    /\ ConstructorOf("Loader", YAMLABLE_PREFIX) = "decode_yamlable"
    /\ RepresenterOf("Dumper", PlainFoo) = "MyCodec"
    /\ RepresenterOf("Dumper", YamlAble) = "encode_yamlable"

-----------------------------------------------------------------------------
(* C30 *)

\* @yaml_info(yaml_tag, yaml_tag_ns) applied to a class of the hierarchy; the
\* suffix the class had in its own namespace before is kept in the record
Decorate(cls, yaml_tag, yaml_tag_ns) ==
    LET r == yaml_info_decorate(cls, yaml_tag, yaml_tag_ns)
    IN  /\ Idle
        /\ classes' = IF r.set THEN [classes EXCEPT ![cls].suffix = r.suffix]
                      ELSE classes
        /\ last' = [NoCall EXCEPT !.op = "decorate", !.cls = cls, !.tag = yaml_tag,
                                  !.ns = yaml_tag_ns, !.out = r.out,
                                  !.doc = [NoOut EXCEPT !.msg = Own(cls)]]
        /\ UNCHANGED <<constructors, representers, yo2>>

NextDecorate ==
    \/ \E body \in ClassBodies, bases \in BaseLists, suffix \in BodySuffixes :
          DeclareClass(body, bases, suffix)
    \/ \E cls \in Declared, yaml_tag \in TagArgs, yaml_tag_ns \in NsArgs :
          Decorate(cls, yaml_tag, yaml_tag_ns)
    \/ \E cls \in Declared, yaml_tag \in QueryTags : IsYamlTagSupported(cls, yaml_tag)
    \/ \E node \in YamlAbleDocs : SafeLoad(node)
    \/ Continue

SpecDecorate == Init /\ [][NextDecorate]_vars

\* the suffix a decoration asks for
AskedSuffix(call) ==
    IF call.ns # PyNone THEN call.ns \o "." \o NameOf(call.cls) ELSE call.tag

\* the tags a class may be asked about
AskedTags == QueryTags \cup {"foo", "ns.Foo", "ns.Bar"}

\* the suffix of the tag of a document under "!yamlable/"
SuffixOfTag(tag) == SubSeq(tag, Len(YAMLABLE_PREFIX) + 1, Len(tag))

\* C30: a decoration that succeeds on a class C of the hierarchy writes the
\* suffix into the namespace of C only, in place of the suffix C had: C then
\* supports the new suffix and no other tag, every other class keeps its own
\* suffix, the classes that do not descend from C answer every query as
\* before, and a descendant of C without a suffix of its own raises on every
\* query; a decoration that fails writes nothing.  A load never builds a
\* class that has no suffix of its own: such a candidate is skipped.
C30_DecorationWritesOwnSuffixOnly ==
    /\ [][last'.op = "decorate"
            => \A C \in Declared : C = last'.cls =>
               LET new == AskedSuffix(last')
               IN  /\ NClasses' = NClasses
                   /\ \A c \in Declared \ {C} : classes'[c] = classes[c]
                   /\ Raised(last'.out) => classes' = classes
                   /\ ~Raised(last'.out) =>
                         /\ Own(C)' = new
                         /\ \A q \in AskedTags \cup {Own(C)} :
                               is_yaml_tag_supported(C, q)' = RetBool(q = new)
                         /\ \A c \in Declared :
                               /\ ~InSeq(C, Mro(c)) =>
                                     \A q \in AskedTags :
                                        is_yaml_tag_supported(c, q)' =
                                            is_yaml_tag_supported(c, q)
                               /\ (c # C /\ InSeq(C, Mro(c)) /\ Own(c) = Absent) =>
                                     \A q \in AskedTags :
                                        Raised(is_yaml_tag_supported(c, q)')
       ]_vars
    /\ [](last.op = "safe_load"
            => /\ \A i \in 1..Len(last.out.attempts) :
                     LET a == last.out.attempts[i]
                     IN  Own(a.cls) = Absent => (a.check = "raise" /\ ~a.built)
               /\ last.out.kind = "obj"
                     => Own(last.out.obj.cls) = SuffixOfTag(last.node.tag))

\* a class that had the suffix "foo" was decorated again and now has
\* "ns.<name>"; its subclass without a suffix of its own is skipped
C30_Witness ==
    /\ last.op = "decorate"
    /\ ~Raised(last.out)
    /\ last.doc.msg = "foo"
    /\ Own(last.cls) = "ns." \o NameOf(last.cls)
    /\ is_yaml_tag_supported(last.cls, "foo") = RetBool(FALSE)
    /\ \E c \in Declared :
          /\ c # last.cls
          /\ InSeq(last.cls, Mro(c))
          /\ Own(c) = Absent
          /\ Raised(is_yaml_tag_supported(c, Own(last.cls)))

====
